---- MODULE Spec2Model ----
(***************************************************************************)
(* ClassTracker: the hosted database (tables, cascades, the                *)
(* update_student_points trigger) and the client pages that write to it    *)
(* (TrackParticipationPage, AddNoteModal, ClassPage, MainPage).            *)
(*                                                                         *)
(* Every supabase request is one atomic step of the database.  A handler   *)
(* that awaits requests is a record in the bag `calls` whose pc names the  *)
(* request it waits for; a step of a call processes that request and runs  *)
(* the handler's code up to its next await.                                *)
(***************************************************************************)
EXTENDS Integers, Sequences, FiniteSets, Bags, TLC

\* ---------------------------------------------------------------- bounds
\* rows participation_logs holds at a time (a further insert is refused)
MaxLogs == 1
\* handlers of the tracking page that may be pending together
MaxInFlight == 1
\* rows of participation_logs a report is computed from
MaxReportLogs == 1
\* changes of the class, student and period selects the user makes on the
\* reports page
MaxFilterChanges == 1
\* dates the user then types into the inputs of a custom period
MaxDateInputs == 1
\* handlers pending together when an award meets a reset
MaxRacing == 2
\* rows the table takes during one interaction of the tracking page
MaxInteractionLogs == 2

\* ------------------------------------------------------------- constants
ClassIds == {1, 2}
StudentIds == {1, 2, 3}
\* class_id of each seeded student row
SeedClassOf == <<1, 1, 2>>

CatExcellent == [id |-> 1, name |-> "Excellent Participation", is_positive |-> TRUE]
CatDisruption == [id |-> 2, name |-> "Talking/Disrupting Class", is_positive |-> FALSE]
CatUnprepared == [id |-> 3, name |-> "Unprepared for Class", is_positive |-> FALSE]
CatTeacherNote == [id |-> 4, name |-> "Teacher Note", is_positive |-> FALSE]
AllCategories == {CatExcellent, CatDisruption, CatUnprepared, CatTeacherNote}
\* the category tables a deployment can hold: the positive row the schema
\* inserts and the flag rows of the migration, with or without the
\* 'Teacher Note' row that AddNoteModal looks up
CategorySeeds == {AllCategories, AllCategories \ {CatTeacherNote}}

PositiveValues == {1, 2, 5, 10}

\* text typed or dictated into the note box, as a sequence of characters
NoteTexts == { <<>>, <<" ">>, <<" ", "a", " ">> }

VARIABLES
  \* database tables; participation_logs is the bag of its rows without the
  \* uuid key, which no handler reads
  classes, students, participation_logs, participation_categories,
  \* AppContent
  currentScreen, currentClassId,
  \* TrackParticipationPage state
  trackStudents, categories, selectedStudent, showPointModal, showCategoryModal,
  selectedPoints, selectedIsPositive, showNoteModal,
  \* AddNoteModal state
  noteText, loading, error,
  \* ClassPage and MainPage confirmation state
  studentToDelete, studentToReset, classToDelete, classToReset,
  \* ReportsPage state (its `classes`, `students`, `categories` and `loading`
  \* are reportClasses, reportStudents, reportCategories and reportLoading);
  \* reportFor is the request the displayed report answers
  reportClasses, reportStudents, reportCategories, selectedClassId, selectedStudentId,
  dateFilter, customStartDate, customEndDate, reportData, classWideReportData,
  reportLoading, reportFor, reportCalls,
  \* how many times the user has changed a filter of the reports page
  filterChanges,
  \* handlers waiting on a request; the console.error line the latest step
  \* wrote ("" when it wrote none)
  calls, console

VARIABLES
  \* getAnalyticsData: the allStudentsWithPoints it reads and the rank it has
  \* shown for each student selected so far (0: not selected yet)
  analytics,
  \* exportReport: the csvData of the last export with the class and range it
  \* was made for (None before the first export)
  csvData,
  \* AIAssistantPage state (its `classes`, `selectedClassId`, `categories` and
  \* `loading` are assistantClasses, assistantClassId, assistantCategories and
  \* assistantLoading); classDataFor is the class and period classData was
  \* fetched for; periodChanges counts the changes of its two selects
  assistantClasses, assistantClassId, selectedPeriod, assistantCategories, classData,
  classDataFor, assistantLoading, messages, assistantCalls, periodChanges,
  \* the database as its clients see it: the outcome of the last statement
  \* sent to it, with the rows the statement and its cascades removed
  sqlStatus,
  \* the send-feedback-email function: the request it serves, the
  \* EMAIL_API_KEY of its environment, the requests it has sent to the email
  \* provider, its fetch ("" before it, "pending", then "ok", "not ok" or
  \* "threw"), and its response
  request, apiKey, providerCalls, awaiting, response

VARIABLES
  \* the name column of the students table, by student id
  studentName,
  \* the daily trend with real clocks: the wall clock of the browser (local
  \* day number and hour), its time zone, the logs handed to
  \* calculateReportData with created_at in hours of UTC, and the dailyData
  \* computed from them (None before)
  trendNow, trendZone, trendLogs, trendData,
  \* ContactFeedbackModal state (formData.name, formData.email, loading,
  \* success, error) and the password reset form of AuthForm (newPassword,
  \* confirmPassword, loading, error); the requests the two forms wait on;
  \* the form whose submit handler the latest step ran ("" for none)
  feedbackForm, passwordForm, formCalls, lastSubmit,
  \* AddNoteModal speech recognition: its isRecording, isSupported and
  \* permissionDenied state; the browser's recognition object ("none" where
  \* the browser has no SpeechRecognition, else "idle", "started" or
  \* "stopping"); the recognition event the latest step delivered ("" for none)
  isRecording, isSupported, permissionDenied, recognition, recognitionEvent,
  \* AddStudentModal and EditStudentModal: whether each is mounted and its
  \* activeInputMethod, error, stream (0 for null, else the number of a
  \* track), videoReady, photoUrl and loading state; the camera tracks the
  \* browser has handed out, with the modal that asked and their readyState;
  \* the getUserMedia calls and the saves the modals wait on; what the latest
  \* step was for the camera ("" unless getUserMedia rejected)
  addStudentModal, editStudentModal, cameraTracks, cameraCalls, cameraEvent,
  \* AuthProvider state: user and session (0 for null), loading
  user, session, authLoading,
  \* the rows participation_logs takes before it refuses a further insert
  tableCapacity

serviceVars == <<sqlStatus, request, apiKey, providerCalls, awaiting, response>>

\* the state of the forms, modals and session handling below, and the name
\* column; the pages above leave it alone
trendVars == <<trendNow, trendZone, trendLogs, trendData>>
formVars == <<feedbackForm, passwordForm, formCalls, lastSubmit>>
speechVars == <<isRecording, isSupported, permissionDenied, recognition, recognitionEvent>>
cameraVars == <<addStudentModal, editStudentModal, cameraTracks, cameraCalls, cameraEvent>>
authVars == <<user, session, authLoading>>
extraVars == <<studentName, trendVars, formVars, speechVars, cameraVars, authVars, tableCapacity>>

assistantVars == <<assistantClasses, assistantClassId, selectedPeriod, assistantCategories,
                   classData, classDataFor, assistantLoading, messages, assistantCalls,
                   periodChanges>>

\* what the computations of the reports page and the pages outside the
\* navigation hold; no handler of another page changes it
analysisVars == <<analytics, csvData, assistantVars, serviceVars, extraVars>>

dbVars == <<classes, students, participation_logs, participation_categories>>
navVars == <<currentScreen, currentClassId>>
trackVars == <<trackStudents, categories, selectedStudent, showPointModal,
               showCategoryModal, selectedPoints, selectedIsPositive, showNoteModal>>
noteVars == <<noteText, loading, error>>
confirmVars == <<studentToDelete, studentToReset, classToDelete, classToReset>>
filterVars == <<selectedClassId, selectedStudentId, dateFilter, customStartDate, customEndDate>>
reportVars == <<reportClasses, reportStudents, reportCategories, filterVars, reportData,
                classWideReportData, reportLoading, reportFor, reportCalls, filterChanges,
                analysisVars>>
vars == <<dbVars, navVars, trackVars, noteVars, confirmVars, reportVars, calls, console>>
\* what the assistant page leaves alone
exceptAssistant == <<dbVars, navVars, trackVars, noteVars, confirmVars, calls, reportClasses,
                     reportStudents, reportCategories, filterVars, reportData,
                     classWideReportData, reportLoading, reportFor, reportCalls,
                     filterChanges, analytics, csvData, serviceVars, extraVars>>

\* ------------------------------------------------------------- helpers
BagAdd(B, x) == B (+) SetToBag({x})
BagRemove(B, x) == B (-) SetToBag({x})

RECURSIVE SumCopies(_, _)
SumCopies(S, B) ==
  IF S = {} THEN 0
  ELSE LET x == CHOOSE y \in S : TRUE IN B[x] + SumCopies(S \ {x}, B)

\* the bag of F(x) for the x of B
MapBag(F(_), B) ==
  [y \in {F(x) : x \in DOMAIN B} |-> SumCopies({x \in DOMAIN B : F(x) = y}, B)]

\* the rows of B that satisfy Keep
FilterBag(Keep(_), B) == [x \in {y \in DOMAIN B : Keep(y)} |-> B[x]]

\* sum of points over the rows of a bag of logs
RECURSIVE SumOver(_, _)
SumOver(S, B) ==
  IF S = {} THEN 0
  ELSE LET l == CHOOSE x \in S : TRUE IN B[l] * l.points + SumOver(S \ {l}, B)
SumPoints(B) == SumOver(DOMAIN B, B)

RECURSIVE TrimStart(_)
TrimStart(t) == IF t # <<>> /\ Head(t) = " " THEN TrimStart(Tail(t)) ELSE t
RECURSIVE TrimEnd(_)
TrimEnd(t) ==
  IF t # <<>> /\ t[Len(t)] = " " THEN TrimEnd(SubSeq(t, 1, Len(t) - 1)) ELSE t
\* String.prototype.trim
Trim(t) == TrimEnd(TrimStart(t))

CategoryById(id) == CHOOSE c \in AllCategories : c.id = id

\* ------------------------------------------------------------ database
\* update_student_points(), AFTER INSERT OR DELETE ... FOR EACH ROW, run for
\* n equal rows.  Its UPDATE ... WHERE id = row.student_id touches no row
\* when the student row is gone.
update_student_points(op, row, n, studs) ==
  IF row.student_id \notin DOMAIN studs THEN studs
  ELSE LET s == studs[row.student_id]
           d == IF op = "INSERT" THEN n * row.points ELSE 0 - n * row.points
       IN IF row.is_positive
          THEN [studs EXCEPT ![row.student_id].total_positive_points = s.total_positive_points + d]
          ELSE [studs EXCEPT ![row.student_id].total_negative_points = s.total_negative_points + d]

\* the trigger applied to every deleted row
RECURSIVE ApplyDeletes(_, _, _)
ApplyDeletes(rows, B, studs) ==
  IF rows = {} THEN studs
  ELSE LET r == CHOOSE x \in rows : TRUE
       IN ApplyDeletes(rows \ {r}, B, update_student_points("DELETE", r, B[r], studs))

\* INSERT INTO participation_logs, and the trigger
InsertLog(row) ==
  /\ participation_logs' = BagAdd(participation_logs, row)
  /\ students' = update_student_points("INSERT", row, 1, students)
  /\ UNCHANGED <<classes, participation_categories>>

\* the foreign key of participation_logs.student_id; the table takes at most
\* tableCapacity rows (MaxLogs unless stated)
CanInsertLog(student_id) ==
  student_id \in DOMAIN students /\ BagCardinality(participation_logs) < tableCapacity

\* DELETE FROM participation_logs WHERE student_id IN ids
DeleteLogsOf(ids) ==
  LET gone == {l \in DOMAIN participation_logs : l.student_id \in ids}
      Stays(l) == l \notin gone
  IN /\ participation_logs' = FilterBag(Stays, participation_logs)
     /\ students' = ApplyDeletes(gone, participation_logs, students)
     /\ UNCHANGED <<classes, participation_categories>>

\* UPDATE students SET total_positive_points = 0, total_negative_points = 0
UpdateTotalsZero(ids) ==
  /\ students' = [s \in DOMAIN students |->
                    IF s \in ids
                    THEN [students[s] EXCEPT !.total_positive_points = 0,
                                             !.total_negative_points = 0]
                    ELSE students[s]]
  /\ UNCHANGED <<classes, participation_logs, participation_categories>>

\* variant of the delete without the cascade to the logs
DeleteStudentsOnly(ids) ==
  /\ students' = [s \in DOMAIN students \ ids |-> students[s]]
  /\ UNCHANGED <<participation_logs, participation_categories>>

\* DELETE FROM students WHERE id IN ids, with ON DELETE CASCADE to the logs
DeleteStudents(ids) ==
  LET gone == {l \in DOMAIN participation_logs : l.student_id \in ids}
      Stays(l) == l \notin gone
      left == [s \in DOMAIN students \ ids |-> students[s]]
  IN /\ participation_logs' = FilterBag(Stays, participation_logs)
     /\ students' = ApplyDeletes(gone, participation_logs, left)
     /\ UNCHANGED participation_categories

StudentsIn(studs, c) == {s \in DOMAIN studs : studs[s].class_id = c}
StudentsOfClass(c) == StudentsIn(students, c)

\* ------------------------------------------------------------- calls
\* a pending handler: the values its closure holds.  `mounted` and `modal`
\* say whether its page and its AddNoteModal still exist; `chosen` and
\* `shown` record the category clicked in the category modal and whether
\* that modal was showing when the handler was called.
Call(op, pc, student, class) ==
  [op |-> op, pc |-> pc, student |-> student, class |-> class, ids |-> {},
   points |-> 0, is_positive |-> FALSE, category_id |-> 0, notes |-> <<>>,
   mounted |-> TRUE, modal |-> TRUE, chosen |-> 0, shown |-> FALSE]

\* a component that unmounts keeps its pending handlers; their setState
\* calls no longer change anything
Unmount(cs, ops) ==
  LET Off(c) == IF c.op \in ops THEN [c EXCEPT !.mounted = FALSE, !.modal = FALSE] ELSE c
  IN MapBag(Off, cs)
CloseNoteModal(cs) ==
  LET Off(c) == IF c.op = "handleSaveNote" THEN [c EXCEPT !.modal = FALSE] ELSE c
  IN MapBag(Off, cs)

Pending == BagToSet(calls)
Replace(c, d) == BagAdd(BagRemove(calls, c), d)

TrackOps == {"handleAddPoints", "handleSaveNote"}
ClassOps == {"handleDeleteStudent", "handleResetStudentPoints"}
MainOps == {"handleDeleteClass", "confirmResetClassPoints"}

\* a database holding the classes cs with their students and no logs yet
InitDb(cs) ==
  /\ classes = cs
  /\ students = [s \in {x \in StudentIds : SeedClassOf[x] \in cs} |->
                   [class_id |-> SeedClassOf[s], total_positive_points |-> 0,
                    total_negative_points |-> 0]]
  /\ participation_logs = EmptyBag
  /\ participation_categories \in CategorySeeds

\* the null of getDateFilter: no range of created_at
NoRange == [all |-> TRUE, oldest |-> 0, newest |-> 0]

\* reportData and classWideReportData before the first report (null)
NoReport == [none |-> TRUE]

\* nothing computed yet
None == [none |-> TRUE]
NoAnalytics == analytics = None
NoExport == csvData = None
\* the assistant page is not mounted
NoAssistant ==
  /\ assistantClasses = {}
  /\ assistantClassId = 0
  /\ selectedPeriod = "all"
  /\ assistantCategories = {}
  /\ classData = <<>>
  /\ classDataFor = [classId |-> 0, period |-> "all"]
  /\ assistantLoading = FALSE
  /\ messages = <<>>
  /\ assistantCalls = EmptyBag
  /\ periodChanges = 0
\* no statement has been sent by another client, and the function serves no
\* request
Absent == [present |-> FALSE, text |-> ""]
NoStatement == sqlStatus = None
\* the names of the seeded classes and students, in id order
ClassNameOf == <<"Math", "Science">>
StudentNameOf == <<"Ada", "Ben", "Cy">>
\* no daily trend computed with a real clock
NoTrend ==
  /\ trendNow = None
  /\ trendZone = None
  /\ trendLogs = EmptyBag
  /\ trendData = None
\* the two forms as they mount
NoForms ==
  /\ feedbackForm = [name |-> <<>>, email |-> <<>>, loading |-> FALSE, success |-> FALSE,
                     error |-> ""]
  /\ passwordForm = [newPassword |-> <<>>, confirmPassword |-> <<>>, loading |-> FALSE,
                     error |-> ""]
  /\ formCalls = {}
  /\ lastSubmit = ""
\* a browser without speech recognition, no note modal mounted
NoSpeech ==
  /\ isRecording = FALSE
  /\ isSupported = FALSE
  /\ permissionDenied = FALSE
  /\ recognition = "none"
  /\ recognitionEvent = ""
\* a student modal as it mounts, and one that is not mounted
ModalInitial ==
  [mounted |-> TRUE, activeInputMethod |-> "none", error |-> "", stream |-> 0,
   videoReady |-> FALSE, photoUrl |-> "", loading |-> FALSE]
ModalAbsent == [ModalInitial EXCEPT !.mounted = FALSE]
\* neither student modal is open
NoCamera ==
  /\ addStudentModal = ModalAbsent
  /\ editStudentModal = ModalAbsent
  /\ cameraTracks = <<>>
  /\ cameraCalls = EmptyBag
  /\ cameraEvent = ""
\* user 1 is signed in
NoAuth ==
  /\ user = 1
  /\ session = 1
  /\ authLoading = FALSE
\* the seeded names, and nothing below started
NothingStarted ==
  /\ studentName = StudentNameOf
  /\ NoTrend
  /\ NoForms
  /\ NoSpeech
  /\ NoCamera
  /\ NoAuth
NoExtra == NothingStarted /\ tableCapacity = MaxLogs
NoRequest ==
  /\ request = None
  /\ apiKey = Absent
  /\ providerCalls = <<>>
  /\ awaiting = ""
  /\ response = None
NoAnalysis == NoAnalytics /\ NoExport /\ NoAssistant /\ NoStatement /\ NoRequest /\ NoExtra

\* the useState initial values of the pages and modals, apart from the
\* selected student and the note modal of the tracking page
InitOtherState ==
  /\ showPointModal = FALSE
  /\ showCategoryModal = FALSE
  /\ selectedPoints = 0
  /\ selectedIsPositive = TRUE
  /\ noteText = <<>>
  /\ loading = FALSE
  /\ error = ""
  /\ studentToDelete = 0
  /\ studentToReset = 0
  /\ classToDelete = 0
  /\ classToReset = 0
  /\ calls = EmptyBag
  /\ console = ""
  /\ reportClasses = {}
  /\ selectedClassId = 0
  /\ selectedStudentId = 0
  /\ dateFilter = "total"
  /\ customStartDate = <<>>
  /\ customEndDate = <<>>
  /\ reportData = NoReport
  /\ classWideReportData = NoReport
  /\ reportLoading = FALSE
  /\ reportFor = [classId |-> 0, studentId |-> 0, range |-> NoRange]
  /\ filterChanges = 0

\* the useState initial values of the pages and modals
InitPages ==
  /\ selectedStudent = 0
  /\ showNoteModal = FALSE
  /\ InitOtherState

\* ------------------------------------------------------- AppContent
\* the modals are full-screen overlays rendered in this order, so the last
\* one rendered is the one the user can reach
NoteVisible == showNoteModal /\ selectedStudent # 0
CategoryVisible == showCategoryModal /\ selectedStudent # 0 /\ ~showNoteModal
PointVisible == showPointModal /\ selectedStudent # 0 /\ ~showCategoryModal /\ ~showNoteModal
ConfirmOpen == studentToDelete # 0 \/ studentToReset # 0 \/ classToDelete # 0 \/ classToReset # 0

TrackInitial ==
  /\ selectedStudent' = 0
  /\ showPointModal' = FALSE
  /\ showCategoryModal' = FALSE
  /\ selectedPoints' = 0
  /\ selectedIsPositive' = TRUE
  /\ showNoteModal' = FALSE
NoteInitial == noteText' = <<>> /\ loading' = FALSE /\ error' = ""
ConfirmInitial ==
  /\ studentToDelete' = 0
  /\ studentToReset' = 0
  /\ classToDelete' = 0
  /\ classToReset' = 0

\* MainPage class card -> handleNavigateToClass
handleNavigateToClass(c) ==
  /\ currentScreen = "main"
  /\ ~ConfirmOpen
  /\ c \in classes
  /\ currentClassId' = c
  /\ currentScreen' = "class"
  /\ calls' = Unmount(calls, MainOps)
  /\ UNCHANGED <<dbVars, trackVars, noteVars, confirmVars, reportVars>>
  /\ console' = ""

\* ClassPage "Track Participation" -> handleNavigateToTracking; the page
\* mounts with its initial state and fetches its students and categories
handleNavigateToTracking ==
  /\ currentScreen = "class"
  /\ ~ConfirmOpen
  /\ currentScreen' = "tracking"
  /\ calls' = Unmount(calls, ClassOps)
  /\ trackStudents' = StudentsOfClass(currentClassId)
  /\ categories' = {c.id : c \in participation_categories}
  /\ TrackInitial
  /\ UNCHANGED <<dbVars, currentClassId, noteVars, confirmVars, reportVars>>
  /\ console' = ""

\* handleNavigateBack (tracking -> class) and handleNavigateToMain
handleNavigateBack ==
  /\ \/ /\ currentScreen = "tracking"
        /\ ~PointVisible /\ ~CategoryVisible /\ ~NoteVisible
        /\ currentScreen' = "class"
        /\ calls' = Unmount(calls, TrackOps)
     \/ /\ currentScreen = "class"
        /\ ~ConfirmOpen
        /\ currentScreen' = "main"
        /\ calls' = Unmount(calls, ClassOps)
  /\ trackStudents' = {}
  /\ categories' = {}
  /\ TrackInitial
  /\ UNCHANGED <<dbVars, currentClassId, noteVars, confirmVars, reportVars>>
  /\ console' = ""

\* ------------------------------------------------ TrackParticipationPage
\* a click on a student card; a note modal that shows with it mounts with
\* empty state
handleStudentClick(s) ==
  /\ currentScreen = "tracking"
  /\ ~PointVisible /\ ~CategoryVisible /\ ~NoteVisible
  /\ s \in trackStudents
  /\ selectedStudent' = s
  /\ showPointModal' = TRUE
  /\ NoteInitial
  /\ UNCHANGED <<dbVars, navVars, reportVars, trackStudents, categories, showCategoryModal, selectedPoints, selectedIsPositive, showNoteModal, confirmVars, calls>>
  /\ console' = ""

\* handleAddPoints up to its first await
handleAddPoints(points, isPositive, categoryId) ==
  IF selectedStudent = 0 THEN UNCHANGED calls
  ELSE calls' = BagAdd(calls,
         [Call("handleAddPoints", IF categoryId = 0 THEN "select_default" ELSE "insert",
               selectedStudent, currentClassId)
            EXCEPT !.points = points, !.is_positive = isPositive,
                   !.category_id = categoryId, !.chosen = categoryId,
                   !.shown = showCategoryModal])

\* variant that sends every value, positive ones too, to the category step
handlePointSelectionTwoStep(points, isPositive) ==
  /\ selectedPoints' = points
  /\ selectedIsPositive' = isPositive
  /\ showPointModal' = FALSE
  /\ showCategoryModal' = TRUE
  /\ UNCHANGED calls

handlePointSelection(points, isPositive) ==
  IF isPositive
  THEN /\ handleAddPoints(points, isPositive, 0)
       /\ UNCHANGED <<selectedPoints, selectedIsPositive, showPointModal, showCategoryModal>>
  ELSE /\ selectedPoints' = points
       /\ selectedIsPositive' = isPositive
       /\ showPointModal' = FALSE
       /\ showCategoryModal' = TRUE
       /\ UNCHANGED calls

\* the +1 / +2 / +5 / +10 buttons of the point modal
PositiveValueButton(v, limit) ==
  /\ currentScreen = "tracking"
  /\ PointVisible
  /\ BagCardinality(calls) < limit
  /\ handlePointSelection(v, TRUE)
  /\ UNCHANGED <<dbVars, navVars, reportVars, trackStudents, categories, selectedStudent, showNoteModal, noteVars, confirmVars>>
  /\ console' = ""

\* variant of the flags button that awards the flag at once, with the
\* default category of its sign
ParticipationFlagsButtonAwards ==
  /\ currentScreen = "tracking"
  /\ PointVisible
  /\ BagCardinality(calls) < MaxInFlight
  /\ handleAddPoints(1, FALSE, 0)
  /\ UNCHANGED <<dbVars, navVars, reportVars, trackStudents, categories, selectedStudent, showPointModal,
                 showCategoryModal, selectedPoints, selectedIsPositive, showNoteModal,
                 noteVars, confirmVars>>
  /\ console' = ""

\* the "Participation Flags" button of the point modal
ParticipationFlagsButton ==
  /\ currentScreen = "tracking"
  /\ PointVisible
  /\ selectedPoints' = 1
  /\ selectedIsPositive' = FALSE
  /\ showPointModal' = FALSE
  /\ showCategoryModal' = TRUE
  /\ UNCHANGED <<dbVars, navVars, reportVars, trackStudents, categories, selectedStudent, showNoteModal, noteVars, confirmVars, calls>>
  /\ console' = ""

\* variant of the list that shows every loaded category
EveryCategory == categories

\* the categories the category modal lists
FlagCategories ==
  {c \in categories : ~CategoryById(c).is_positive /\ CategoryById(c).name # "Teacher Note"}

handleCategorySelection(categoryId, limit) ==
  /\ currentScreen = "tracking"
  /\ CategoryVisible
  /\ categoryId \in FlagCategories
  /\ BagCardinality(calls) < limit
  /\ handleAddPoints(selectedPoints, selectedIsPositive, categoryId)
  /\ UNCHANGED <<dbVars, navVars, reportVars, trackVars, noteVars, confirmVars>>
  /\ console' = ""

handleAddNote ==
  /\ currentScreen = "tracking"
  /\ PointVisible
  /\ showPointModal' = FALSE
  /\ showNoteModal' = TRUE
  /\ NoteInitial
  /\ UNCHANGED <<dbVars, navVars, reportVars, trackStudents, categories, selectedStudent, showCategoryModal, selectedPoints, selectedIsPositive, confirmVars, calls>>
  /\ console' = ""

\* Cancel of the point modal
CancelPointModal ==
  /\ currentScreen = "tracking"
  /\ PointVisible
  /\ showPointModal' = FALSE
  /\ selectedStudent' = 0
  /\ UNCHANGED <<dbVars, navVars, reportVars, trackStudents, categories, showCategoryModal, selectedPoints, selectedIsPositive, showNoteModal, noteVars, confirmVars, calls>>
  /\ console' = ""

\* Cancel and X of the category modal
CancelCategoryModal ==
  /\ currentScreen = "tracking"
  /\ CategoryVisible
  /\ showCategoryModal' = FALSE
  /\ selectedStudent' = 0
  /\ UNCHANGED <<dbVars, navVars, reportVars, trackStudents, categories, showPointModal, selectedPoints, selectedIsPositive, showNoteModal, noteVars, confirmVars, calls>>
  /\ console' = ""

\* onClose of AddNoteModal (Cancel and X)
CloseNote ==
  /\ currentScreen = "tracking"
  /\ NoteVisible
  /\ showNoteModal' = FALSE
  /\ selectedStudent' = 0
  /\ NoteInitial
  /\ calls' = CloseNoteModal(calls)
  /\ UNCHANGED <<dbVars, navVars, reportVars, trackStudents, categories, showPointModal, showCategoryModal, selectedPoints, selectedIsPositive, confirmVars>>
  /\ console' = ""

\* what a successful award does after the insert: fetchStudents(),
\* setShowPointModal(false), setShowCategoryModal(false), setSelectedStudent(null)
AwardDone(c, cs) ==
  IF c.mounted
  THEN /\ trackStudents' = StudentsIn(students', c.class)
       /\ showPointModal' = FALSE
       /\ showCategoryModal' = FALSE
       /\ selectedStudent' = 0
       /\ NoteInitial
       /\ calls' = CloseNoteModal(cs)
       /\ UNCHANGED <<categories, selectedPoints, selectedIsPositive, showNoteModal>>
  ELSE /\ calls' = cs
       /\ UNCHANGED <<trackVars, noteVars>>

\* handleAddPoints: the lookup of a default category answers
AddPointsSelectDefault(c) ==
  /\ c \in Pending
  /\ c.op = "handleAddPoints"
  /\ c.pc = "select_default"
  /\ \/ \E cat \in participation_categories :
          /\ cat.is_positive = c.is_positive
          /\ calls' = Replace(c, [c EXCEPT !.pc = "insert", !.category_id = cat.id])
          /\ console' = ""
     \/ /\ calls' = BagRemove(calls, c)
        /\ console' = "No categories found"
  /\ UNCHANGED <<dbVars, navVars, reportVars, trackVars, noteVars, confirmVars>>

\* history kept with a row: the interaction that wrote it
Why(c, via) == [via |-> via, chosen |-> c.chosen, shown |-> c.shown, selected |-> c.student]

\* the row handleAddPoints inserts
AwardRow(c) ==
  [student_id |-> c.student, category_id |-> c.category_id, points |-> c.points,
   is_positive |-> c.is_positive, notes |-> <<>>,
   why |-> Why(c, IF c.chosen = 0 THEN "value" ELSE "category")]

\* handleAddPoints: the insert is accepted
AddPointsInsertOk(c) ==
  /\ c \in Pending
  /\ c.op = "handleAddPoints"
  /\ c.pc = "insert"
  /\ CanInsertLog(c.student)
  /\ InsertLog(AwardRow(c))
  /\ AwardDone(c, BagRemove(calls, c))
  /\ UNCHANGED <<navVars, reportVars, confirmVars>>
  /\ console' = ""

\* handleAddPoints: the insert returns an error
AddPointsInsertError(c) ==
  /\ c \in Pending
  /\ c.op = "handleAddPoints"
  /\ c.pc = "insert"
  /\ calls' = BagRemove(calls, c)
  /\ console' = "Error adding points:"
  /\ UNCHANGED <<dbVars, navVars, reportVars, trackVars, noteVars, confirmVars>>

\* ---------------------------------------------------------- AddNoteModal
\* the textarea's onChange
setNoteText(t) ==
  /\ currentScreen = "tracking"
  /\ NoteVisible
  /\ t \in NoteTexts
  /\ noteText' = t
  /\ UNCHANGED <<dbVars, navVars, reportVars, trackVars, loading, error, confirmVars, calls>>
  /\ console' = ""

\* the Save Note button is disabled while loading or when the text trims to nothing
SaveEnabled == ~loading /\ Trim(noteText) # <<>>

\* handleSaveNote up to its first await
handleSaveNote(limit) ==
  /\ currentScreen = "tracking"
  /\ NoteVisible
  /\ SaveEnabled
  /\ BagCardinality(calls) < limit
  /\ IF Trim(noteText) = <<>>
     THEN /\ error' = "Please enter a note or record a voice message."
          /\ UNCHANGED <<loading, calls>>
     ELSE /\ loading' = TRUE
          /\ error' = ""
          /\ calls' = BagAdd(calls,
               [Call("handleSaveNote", "select_category", selectedStudent, currentClassId)
                  EXCEPT !.notes = noteText])
  /\ UNCHANGED <<dbVars, navVars, reportVars, trackVars, noteText, confirmVars>>
  /\ console' = ""

\* the catch and finally blocks of handleSaveNote
SaveNoteFailed(c, msg) ==
  /\ console' = "Error saving note:"
  /\ IF c.modal
     THEN error' = msg /\ loading' = FALSE /\ UNCHANGED noteText
     ELSE UNCHANGED noteVars

\* handleSaveNote: the lookup of the 'Teacher Note' category answers
SaveNoteSelectCategory(c) ==
  /\ c \in Pending
  /\ c.op = "handleSaveNote"
  /\ c.pc = "select_category"
  /\ \/ \E cat \in participation_categories :
          /\ cat.name = "Teacher Note"
          /\ calls' = Replace(c, [c EXCEPT !.pc = "insert", !.category_id = cat.id])
          /\ UNCHANGED noteVars
          /\ console' = ""
     \/ /\ \A cat \in participation_categories : cat.name # "Teacher Note"
        /\ calls' = BagRemove(calls, c)
        /\ SaveNoteFailed(c,
             "Teacher Note category not found. Please add the \"Teacher Note\" category to your database first.")
     \/ /\ calls' = BagRemove(calls, c)
        /\ SaveNoteFailed(c, "Failed to save note")
  /\ UNCHANGED <<dbVars, navVars, reportVars, trackVars, confirmVars>>

\* variant that stores the text as typed
NoteRowUntrimmed(c) ==
  [student_id |-> c.student, category_id |-> c.category_id, points |-> 0,
   is_positive |-> FALSE, notes |-> c.notes, why |-> Why(c, "note")]

\* the row handleSaveNote inserts
NoteRow(c) ==
  [student_id |-> c.student, category_id |-> c.category_id, points |-> 0,
   is_positive |-> FALSE, notes |-> Trim(c.notes), why |-> Why(c, "note")]

\* handleNoteSaved of the tracking page
handleNoteSaved(c, cs) ==
  IF c.mounted
  THEN /\ showNoteModal' = FALSE
       /\ selectedStudent' = 0
       /\ trackStudents' = StudentsIn(students', c.class)
       /\ NoteInitial
       /\ calls' = CloseNoteModal(cs)
       /\ UNCHANGED <<categories, showPointModal, showCategoryModal, selectedPoints,
                      selectedIsPositive>>
  ELSE /\ calls' = cs
       /\ UNCHANGED <<trackVars, noteVars>>

\* handleSaveNote: the insert is accepted
SaveNoteInsertOk(c) ==
  /\ c \in Pending
  /\ c.op = "handleSaveNote"
  /\ c.pc = "insert"
  /\ CanInsertLog(c.student)
  /\ InsertLog(NoteRow(c))
  /\ handleNoteSaved(c, BagRemove(calls, c))
  /\ UNCHANGED <<navVars, reportVars, confirmVars>>
  /\ console' = ""

\* handleSaveNote: the insert returns an error
SaveNoteInsertError(c) ==
  /\ c \in Pending
  /\ c.op = "handleSaveNote"
  /\ c.pc = "insert"
  /\ calls' = BagRemove(calls, c)
  /\ SaveNoteFailed(c, "Failed to save note")
  /\ UNCHANGED <<dbVars, navVars, reportVars, trackVars, confirmVars>>

\* -------------------------------------------------------------- ClassPage
\* "Reset Points" / "Delete Student" of a student card's dropdown
setStudentToReset(s) ==
  /\ currentScreen = "class"
  /\ ~ConfirmOpen
  /\ s \in StudentsOfClass(currentClassId)
  /\ studentToReset' = s
  /\ UNCHANGED <<dbVars, navVars, reportVars, trackVars, noteVars, studentToDelete, classToDelete, classToReset, calls>>
  /\ console' = ""

setStudentToDelete(s) ==
  /\ currentScreen = "class"
  /\ ~ConfirmOpen
  /\ s \in StudentsOfClass(currentClassId)
  /\ studentToDelete' = s
  /\ UNCHANGED <<dbVars, navVars, reportVars, trackVars, noteVars, studentToReset, classToDelete, classToReset, calls>>
  /\ console' = ""

\* Cancel and X of the confirmation modals of ClassPage and MainPage
CancelConfirm ==
  /\ ConfirmOpen
  /\ ConfirmInitial
  /\ UNCHANGED <<dbVars, navVars, reportVars, trackVars, noteVars, calls>>
  /\ console' = ""

\* the Delete button -> handleDeleteStudent up to its await
handleDeleteStudent(limit) ==
  /\ currentScreen = "class"
  /\ studentToDelete # 0
  /\ BagCardinality(calls) < limit
  /\ calls' = BagAdd(calls, Call("handleDeleteStudent", "delete", studentToDelete, currentClassId))
  /\ UNCHANGED <<dbVars, navVars, reportVars, trackVars, noteVars, confirmVars>>
  /\ console' = ""

DeleteStudentOk(c) ==
  /\ c \in Pending
  /\ c.op = "handleDeleteStudent"
  /\ DeleteStudents({c.student})
  /\ calls' = BagRemove(calls, c)
  /\ studentToDelete' = IF c.mounted THEN 0 ELSE studentToDelete
  /\ UNCHANGED <<classes, navVars, reportVars, trackVars, noteVars, studentToReset, classToDelete, classToReset>>
  /\ console' = ""

DeleteStudentError(c) ==
  /\ c \in Pending
  /\ c.op = "handleDeleteStudent"
  /\ calls' = BagRemove(calls, c)
  /\ console' = "Error deleting student:"
  /\ UNCHANGED <<dbVars, navVars, reportVars, trackVars, noteVars, confirmVars>>

\* the Reset Points button -> handleResetStudentPoints up to its first await
handleResetStudentPoints(limit) ==
  /\ currentScreen = "class"
  /\ studentToReset # 0
  /\ BagCardinality(calls) < limit
  /\ calls' = BagAdd(calls,
       Call("handleResetStudentPoints", "delete_logs", studentToReset, currentClassId))
  /\ UNCHANGED <<dbVars, navVars, reportVars, trackVars, noteVars, confirmVars>>
  /\ console' = ""

\* handleResetStudentPoints: the delete of the student's logs is done
ResetStudentDeleteLogs(c) ==
  /\ c \in Pending
  /\ c.op = "handleResetStudentPoints"
  /\ c.pc = "delete_logs"
  /\ DeleteLogsOf({c.student})
  /\ calls' = Replace(c, [c EXCEPT !.pc = "update_totals"])
  /\ UNCHANGED <<navVars, reportVars, trackVars, noteVars, confirmVars>>
  /\ console' = ""

\* handleResetStudentPoints: the update of the totals is done
ResetStudentUpdateTotals(c) ==
  /\ c \in Pending
  /\ c.op = "handleResetStudentPoints"
  /\ c.pc = "update_totals"
  /\ UpdateTotalsZero({c.student})
  /\ calls' = BagRemove(calls, c)
  /\ studentToReset' = IF c.mounted THEN 0 ELSE studentToReset
  /\ UNCHANGED <<navVars, reportVars, trackVars, noteVars, studentToDelete, classToDelete, classToReset>>
  /\ console' = ""

\* handleResetStudentPoints: either request returns an error
ResetStudentError(c) ==
  /\ c \in Pending
  /\ c.op = "handleResetStudentPoints"
  /\ calls' = BagRemove(calls, c)
  /\ console' = "Error resetting student points:"
  /\ UNCHANGED <<dbVars, navVars, reportVars, trackVars, noteVars, confirmVars>>

\* --------------------------------------------------------------- MainPage
\* "Delete Class" of a class card's dropdown
setClassToDelete(c) ==
  /\ currentScreen = "main"
  /\ ~ConfirmOpen
  /\ c \in classes
  /\ classToDelete' = c
  /\ UNCHANGED <<dbVars, navVars, reportVars, trackVars, noteVars, studentToDelete, studentToReset, classToReset, calls>>
  /\ console' = ""

\* "Reset Points" of a class card's dropdown
handleResetClassPoints(c) ==
  /\ currentScreen = "main"
  /\ ~ConfirmOpen
  /\ c \in classes
  /\ classToReset' = c
  /\ UNCHANGED <<dbVars, navVars, reportVars, trackVars, noteVars, studentToDelete, studentToReset, classToDelete, calls>>
  /\ console' = ""

handleDeleteClass(limit) ==
  /\ currentScreen = "main"
  /\ classToDelete # 0
  /\ BagCardinality(calls) < limit
  /\ calls' = BagAdd(calls, Call("handleDeleteClass", "delete", 0, classToDelete))
  /\ UNCHANGED <<dbVars, navVars, reportVars, trackVars, noteVars, confirmVars>>
  /\ console' = ""

\* DELETE FROM classes, cascading to the students and their logs
DeleteClassOk(c) ==
  /\ c \in Pending
  /\ c.op = "handleDeleteClass"
  /\ classes' = classes \ {c.class}
  /\ DeleteStudents(StudentsOfClass(c.class))
  /\ calls' = BagRemove(calls, c)
  /\ classToDelete' = IF c.mounted THEN 0 ELSE classToDelete
  /\ UNCHANGED <<navVars, reportVars, trackVars, noteVars, studentToDelete, studentToReset, classToReset>>
  /\ console' = ""

DeleteClassError(c) ==
  /\ c \in Pending
  /\ c.op = "handleDeleteClass"
  /\ calls' = BagRemove(calls, c)
  /\ console' = "Error deleting class:"
  /\ UNCHANGED <<dbVars, navVars, reportVars, trackVars, noteVars, confirmVars>>

\* the Reset Points button of the confirmation -> confirmResetClassPoints
confirmResetClassPoints(limit) ==
  /\ currentScreen = "main"
  /\ classToReset # 0
  /\ BagCardinality(calls) < limit
  /\ calls' = BagAdd(calls, Call("confirmResetClassPoints", "select_students", 0, classToReset))
  /\ UNCHANGED <<dbVars, navVars, reportVars, trackVars, noteVars, confirmVars>>
  /\ console' = ""

\* confirmResetClassPoints: the select of the class's students answers; with
\* no students the handler is finished
ResetClassSelectStudents(c) ==
  /\ c \in Pending
  /\ c.op = "confirmResetClassPoints"
  /\ c.pc = "select_students"
  /\ LET ids == StudentsOfClass(c.class)
     IN IF ids = {}
        THEN /\ calls' = BagRemove(calls, c)
             /\ classToReset' = IF c.mounted THEN 0 ELSE classToReset
        ELSE /\ calls' = Replace(c, [c EXCEPT !.pc = "delete_logs", !.ids = ids])
             /\ UNCHANGED classToReset
  /\ UNCHANGED <<dbVars, navVars, reportVars, trackVars, noteVars, studentToDelete, studentToReset, classToDelete>>
  /\ console' = ""

ResetClassDeleteLogs(c) ==
  /\ c \in Pending
  /\ c.op = "confirmResetClassPoints"
  /\ c.pc = "delete_logs"
  /\ DeleteLogsOf(c.ids)
  /\ calls' = Replace(c, [c EXCEPT !.pc = "update_totals"])
  /\ UNCHANGED <<navVars, reportVars, trackVars, noteVars, confirmVars>>
  /\ console' = ""

\* UPDATE students ... WHERE class_id = classId
ResetClassUpdateTotals(c) ==
  /\ c \in Pending
  /\ c.op = "confirmResetClassPoints"
  /\ c.pc = "update_totals"
  /\ UpdateTotalsZero(StudentsOfClass(c.class))
  /\ calls' = BagRemove(calls, c)
  /\ classToReset' = IF c.mounted THEN 0 ELSE classToReset
  /\ UNCHANGED <<navVars, reportVars, trackVars, noteVars, studentToDelete, studentToReset, classToDelete>>
  /\ console' = ""

\* confirmResetClassPoints: any of its requests returns an error
ResetClassError(c) ==
  /\ c \in Pending
  /\ c.op = "confirmResetClassPoints"
  /\ calls' = BagRemove(calls, c)
  /\ console' = "Error resetting class points:"
  /\ classToReset' = IF c.mounted THEN 0 ELSE classToReset
  /\ UNCHANGED <<dbVars, navVars, reportVars, trackVars, noteVars, studentToDelete, studentToReset,
                 classToDelete>>

\* ------------------------------------------------------------ ReportsPage
\* created_at of a log and the dates of the custom range are counted in days
\* before `now`
WeekDays == 7
LogAges == {0, 3, 8}
DateFilters == {"daily", "weekly", "total", "custom"}
\* value of a date input: empty, or one day
DateInputs == {<<>>, <<3>>, <<8>>}

\* getDateFilter: the range of created_at the query keeps, NoRange for null
getDateFilter(filter, startDate, endDate) ==
  CASE filter = "daily" -> [all |-> FALSE, oldest |-> 0, newest |-> 0]
    [] filter = "weekly" -> [all |-> FALSE, oldest |-> WeekDays, newest |-> 0]
    [] filter = "custom" ->
         IF startDate # <<>> /\ endDate # <<>>
         THEN [all |-> FALSE, oldest |-> startDate[1], newest |-> endDate[1]]
         ELSE NoRange
    [] OTHER -> NoRange

\* .gte('created_at', start).lte('created_at', end)
InRange(l, range) ==
  range.all \/ (l.created_at <= range.oldest /\ l.created_at >= range.newest)

\* l.participation_categories?.name of a joined row
CategoryName(l) == CategoryById(l.category_id).name

\* entries by count, largest first; Array.prototype.sort is stable, so equal
\* counts stay in the order of the categories, which were fetched by name
RECURSIVE SortByCount(_)
SortByCount(S) ==
  IF S = {} THEN <<>>
  ELSE LET e == CHOOSE x \in S : \A y \in S :
                  x.count > y.count \/ (x.count = y.count /\ x.category <= y.category)
       IN <<e>> \o SortByCount(S \ {e})

\* the students list of a breakdown entry: the Map `counts` keyed by
\* l.students.name, as {name, count} entries sorted by count, largest first.
\* Equal counts stay in the order the names entered the Map, which follows
\* the order of the rows the query returned; that order is taken here as the
\* order of the ids
RECURSIVE SortStudentsList(_)
SortStudentsList(S) ==
  IF S = {} THEN <<>>
  ELSE LET First(n) == CHOOSE s \in StudentIds :
                         /\ studentName[s] = n
                         /\ \A t \in StudentIds : studentName[t] = n => s <= t
           e == CHOOSE x \in S : \A y \in S :
                  x.count > y.count \/ (x.count = y.count /\ First(x.name) <= First(y.name))
       IN <<e>> \o SortStudentsList(S \ {e})

\* counts and studentsList of the logs of one category
studentsList(logsForCat) ==
  LET names == {studentName[l.student_id] : l \in BagToSet(logsForCat)}
      Count(n) == LET Named(l) == studentName[l.student_id] = n
                  IN BagCardinality(FilterBag(Named, logsForCat))
  IN SortStudentsList({[name |-> n, count |-> Count(n)] : n \in names})

\* the students array of a render, which fetchStudents ordered by name
RECURSIVE StudentsArray(_)
StudentsArray(S) ==
  IF S = {} THEN <<>>
  ELSE LET s == CHOOSE x \in S : \A y \in S : x <= y
       IN <<s>> \o StudentsArray(S \ {s})

\* slice(0, 5) of the two student lists
TopCount == 5
\* the days of the daily trend
TrendDays == 7
\* needsAttention keeps a student with at most this many positive points or
\* at least that many negative points
FewPositive == 5
ManyNegative == 10

\* [...studentsToAnalyze].sort((a, b) => b.total_positive_points -
\* a.total_positive_points): a stable sort, the larger total first
RECURSIVE SortByTotal(_)
SortByTotal(array) ==
  IF array = <<>> THEN <<>>
  ELSE LET Total(i) == students[array[i]].total_positive_points
           first == CHOOSE i \in 1..Len(array) :
                      /\ \A j \in 1..Len(array) : Total(j) <= Total(i)
                      /\ \A j \in 1..(i - 1) : Total(j) < Total(i)
           rest == [j \in 1..(Len(array) - 1) |-> IF j < first THEN array[j] ELSE array[j + 1]]
       IN <<array[first]>> \o SortByTotal(rest)

\* array.slice(0, n)
Slice(array, n) == SubSeq(array, 1, IF Len(array) < n THEN Len(array) ELSE n)

\* array.filter(s => s.total_positive_points <= 5 || s.total_negative_points >= 10)
RECURSIVE FilterNeedsAttention(_)
FilterNeedsAttention(array) ==
  IF array = <<>> THEN <<>>
  ELSE LET s == students[Head(array)]
           keep == s.total_positive_points <= FewPositive
                   \/ s.total_negative_points >= ManyNegative
       IN (IF keep THEN <<Head(array)>> ELSE <<>>) \o FilterNeedsAttention(Tail(array))

\* sum of a field of the student rows of an array
RECURSIVE SumTotals(_, _)
SumTotals(array, positive) ==
  IF array = <<>> THEN 0
  ELSE (IF positive THEN students[Head(array)].total_positive_points
        ELSE students[Head(array)].total_negative_points) + SumTotals(Tail(array), positive)

\* total / length as the fraction it is, 0 for an empty array
Average(total, length) ==
  IF length = 0 THEN [numerator |-> 0, denominator |-> 1]
  ELSE [numerator |-> total, denominator |-> length]

\* allStudentsWithPoints of the class-wide report: per student the points of
\* its logs among `logs`, by sign, teacher notes left out of the negative
allStudentsWithPoints(logs, studentsToAnalyze) ==
  LET array == StudentsArray(studentsToAnalyze)
      Entry(s) ==
        LET Positive(l) == l.student_id = s /\ l.is_positive
            Negative(l) == l.student_id = s /\ ~l.is_positive
                           /\ CategoryName(l) # "Teacher Note"
        IN [student |-> s,
            positivePoints |-> SumPoints(FilterBag(Positive, logs)),
            negativePoints |-> SumPoints(FilterBag(Negative, logs))]
  IN [i \in 1..Len(array) |-> Entry(array[i])]

\* calculateReportData: the totals, the student count, the averages, the two
\* student lists, the daily trend, the category breakdown and the teacher
\* notes of a report; `cats` is the `categories` state the calling render
\* closed over. The student rows of studentsToAnalyze carry the totals the
\* students table has (nothing writes to it while the reports page is used)
calculateReportData(logs, studentsToAnalyze, cats) ==
  LET Positive(l) == l.is_positive
      Note(l) == ~l.is_positive /\ CategoryName(l) = "Teacher Note"
      Alert(l) == ~l.is_positive /\ CategoryName(l) # "Teacher Note"
      positiveLogs == FilterBag(Positive, logs)
      teacherNotesLogs == FilterBag(Note, logs)
      behavioralAlertLogs == FilterBag(Alert, logs)
      totalPositive == SumPoints(positiveLogs)
      totalNegative == SumPoints(behavioralAlertLogs)
      flags == {c \in cats : ~CategoryById(c).is_positive
                             /\ CategoryById(c).name # "Teacher Note"}
      Entry(c) == LET Of(l) == l.category_id = c
                      logsForCat == FilterBag(Of, behavioralAlertLogs)
                  IN [category |-> c,
                      count |-> BagCardinality(logsForCat),
                      students |-> studentsList(logsForCat)]
      array == StudentsArray(studentsToAnalyze)
      Day(i) == LET On(l) == l.created_at = TrendDays - i
                IN [positive |-> SumPoints(FilterBag(On, positiveLogs)),
                    negative |-> SumPoints(FilterBag(On, behavioralAlertLogs))]
  IN [totalPositivePoints |-> totalPositive,
      totalNegativePoints |-> totalNegative,
      netPoints |-> totalPositive - totalNegative,
      studentCount |-> Len(array),
      averagePositive |-> Average(SumTotals(array, TRUE), Len(array)),
      averageNegative |-> Average(SumTotals(array, FALSE), Len(array)),
      topPerformers |-> Slice(SortByTotal(array), TopCount),
      needsAttention |-> Slice(FilterNeedsAttention(array), TopCount),
      dailyData |-> [i \in 1..TrendDays |-> Day(i)],
      categoryBreakdown |-> SortByCount({Entry(c) : c \in flags}),
      teacherNotes |-> teacherNotesLogs]

\* a pending request of the page with what its closure holds
ReportCall(op) ==
  [op |-> op, classId |-> 0, studentId |-> 0, range |-> NoRange, students |-> {},
   categories |-> {}]

\* the effect on [selectedClassId, selectedStudentId, dateFilter,
\* customStartDate, customEndDate]: after a render that changed one of them
\* it calls fetchStudents() and generateReport(), which close over that
\* render's state
FilterEffect(cs, classId, studentId, filter, startDate, endDate) ==
  IF classId = 0 THEN cs
  ELSE cs (+) SetToBag({[ReportCall("fetchStudents") EXCEPT !.classId = classId]})
          (+) SetToBag({[ReportCall("generateReport") EXCEPT
                           !.classId = classId, !.studentId = studentId,
                           !.range = getDateFilter(filter, startDate, endDate),
                           !.students = reportStudents,
                           !.categories = reportCategories]})

ReportPending == BagToSet(reportCalls)
otherVars == <<dbVars, navVars, trackVars, noteVars, confirmVars, calls, analysisVars>>

\* the class <select>
setSelectedClassId(c, limit) ==
  /\ currentScreen = "reports"
  /\ c \in reportClasses
  /\ c # selectedClassId
  /\ filterChanges < limit
  /\ filterChanges' = filterChanges + 1
  /\ selectedClassId' = c
  /\ reportCalls' = FilterEffect(reportCalls, c, selectedStudentId, dateFilter,
                                 customStartDate, customEndDate)
  /\ reportLoading' = TRUE
  /\ UNCHANGED <<otherVars, reportClasses, reportStudents, reportCategories, selectedStudentId,
                 dateFilter, customStartDate, customEndDate, reportData,
                 classWideReportData, reportFor>>
  /\ console' = ""

\* the student <select>: "All Students" (0) or a loaded student
setSelectedStudentId(s, limit) ==
  /\ currentScreen = "reports"
  /\ s \in reportStudents \cup {0}
  /\ s # selectedStudentId
  /\ filterChanges < limit
  /\ filterChanges' = filterChanges + 1
  /\ selectedStudentId' = s
  /\ reportCalls' = FilterEffect(reportCalls, selectedClassId, s, dateFilter,
                                 customStartDate, customEndDate)
  /\ reportLoading' = (reportLoading \/ selectedClassId # 0)
  /\ UNCHANGED <<otherVars, reportClasses, reportStudents, reportCategories, selectedClassId,
                 dateFilter, customStartDate, customEndDate, reportData,
                 classWideReportData, reportFor>>
  /\ console' = ""

\* the time period <select>
setDateFilter(f, limit) ==
  /\ currentScreen = "reports"
  /\ f \in DateFilters
  /\ f # dateFilter
  /\ filterChanges < limit
  /\ filterChanges' = filterChanges + 1
  /\ dateFilter' = f
  /\ reportCalls' = FilterEffect(reportCalls, selectedClassId, selectedStudentId, f,
                                 customStartDate, customEndDate)
  /\ reportLoading' = (reportLoading \/ selectedClassId # 0)
  /\ UNCHANGED <<otherVars, reportClasses, reportStudents, reportCategories, selectedClassId,
                 selectedStudentId, customStartDate, customEndDate, reportData,
                 classWideReportData, reportFor>>
  /\ console' = ""

\* the start date input of the custom range
setCustomStartDate(d, limit) ==
  /\ currentScreen = "reports"
  /\ dateFilter = "custom"
  /\ d \in DateInputs
  /\ d # customStartDate
  /\ filterChanges < limit
  /\ filterChanges' = filterChanges + 1
  /\ customStartDate' = d
  /\ reportCalls' = FilterEffect(reportCalls, selectedClassId, selectedStudentId, dateFilter,
                                 d, customEndDate)
  /\ reportLoading' = (reportLoading \/ selectedClassId # 0)
  /\ UNCHANGED <<otherVars, reportClasses, reportStudents, reportCategories, selectedClassId,
                 selectedStudentId, dateFilter, customEndDate, reportData,
                 classWideReportData, reportFor>>
  /\ console' = ""

\* the end date input of the custom range
setCustomEndDate(d, limit) ==
  /\ currentScreen = "reports"
  /\ dateFilter = "custom"
  /\ d \in DateInputs
  /\ d # customEndDate
  /\ filterChanges < limit
  /\ filterChanges' = filterChanges + 1
  /\ customEndDate' = d
  /\ reportCalls' = FilterEffect(reportCalls, selectedClassId, selectedStudentId, dateFilter,
                                 customStartDate, d)
  /\ reportLoading' = (reportLoading \/ selectedClassId # 0)
  /\ UNCHANGED <<otherVars, reportClasses, reportStudents, reportCategories, selectedClassId,
                 selectedStudentId, dateFilter, customStartDate, reportData,
                 classWideReportData, reportFor>>
  /\ console' = ""

\* .order('name') of the classes: the seeded classes are named in id order
FirstClass(cs) == CHOOSE c \in cs : \A d \in cs : c <= d

\* fetchClasses answers: setClasses, and setSelectedClassId(data[0].id) when
\* there is a class; the filter effect runs when that changes the selection
fetchClassesOk(c) ==
  /\ c \in ReportPending
  /\ c.op = "fetchClasses"
  /\ reportClasses' = classes
  /\ selectedClassId' = IF classes # {} THEN FirstClass(classes) ELSE selectedClassId
  /\ reportCalls' =
       IF selectedClassId' # selectedClassId
       THEN FilterEffect(BagRemove(reportCalls, c), selectedClassId', selectedStudentId,
                         dateFilter, customStartDate, customEndDate)
       ELSE BagRemove(reportCalls, c)
  /\ reportLoading' = (reportLoading \/ selectedClassId' # selectedClassId)
  /\ UNCHANGED <<otherVars, filterChanges, reportStudents, reportCategories, selectedStudentId, dateFilter,
                 customStartDate, customEndDate, reportData, classWideReportData, reportFor>>
  /\ console' = ""

\* fetchCategories answers: setCategories
fetchCategoriesOk(c) ==
  /\ c \in ReportPending
  /\ c.op = "fetchCategories"
  /\ reportCategories' = {x.id : x \in participation_categories}
  /\ reportCalls' = BagRemove(reportCalls, c)
  /\ UNCHANGED <<otherVars, filterChanges, reportClasses, reportStudents, filterVars, reportData,
                 classWideReportData, reportLoading, reportFor>>
  /\ console' = ""

\* fetchStudents answers: setStudents
fetchStudentsOk(c) ==
  /\ c \in ReportPending
  /\ c.op = "fetchStudents"
  /\ reportStudents' = StudentsOfClass(c.classId)
  /\ reportCalls' = BagRemove(reportCalls, c)
  /\ UNCHANGED <<otherVars, filterChanges, reportClasses, reportCategories, filterVars, reportData,
                 classWideReportData, reportLoading, reportFor>>
  /\ console' = ""

\* fetchClasses, fetchCategories or fetchStudents gets an error: console.error(e)
fetchError(c) ==
  /\ c \in ReportPending
  /\ c.op \in {"fetchClasses", "fetchCategories", "fetchStudents"}
  /\ reportCalls' = BagRemove(reportCalls, c)
  /\ console' = c.op
  /\ UNCHANGED <<otherVars, filterChanges, reportClasses, reportStudents, reportCategories, filterVars,
                 reportData, classWideReportData, reportLoading, reportFor>>

\* the rows the query of generateReport returns: the logs of the students of
\* the class (students!inner), within the range
QueryLogs(classId, range) ==
  LET Keep(l) == /\ l.student_id \in DOMAIN students
                 /\ students[l.student_id].class_id = classId
                 /\ InRange(l, range)
  IN FilterBag(Keep, participation_logs)

\* generateReport: the query answers; the class-wide and the filtered report
\* are computed from the students and categories of the closure
generateReportOk(c) ==
  /\ c \in ReportPending
  /\ c.op = "generateReport"
  /\ LET logs == QueryLogs(c.classId, c.range)
         Selected(l) == l.student_id = c.studentId
         filteredLogs == IF c.studentId # 0 THEN FilterBag(Selected, logs) ELSE logs
         filteredStudents == IF c.studentId # 0 THEN c.students \cap {c.studentId}
                             ELSE c.students
     IN /\ classWideReportData' =
             calculateReportData(logs, c.students, c.categories)
               @@ [allStudentsWithPoints |-> allStudentsWithPoints(logs, c.students)]
        /\ reportData' = calculateReportData(filteredLogs, filteredStudents, c.categories)
  /\ reportFor' = [classId |-> c.classId, studentId |-> c.studentId, range |-> c.range]
  /\ reportLoading' = FALSE
  /\ reportCalls' = BagRemove(reportCalls, c)
  /\ UNCHANGED <<otherVars, filterChanges, reportClasses, reportStudents, reportCategories, filterVars>>
  /\ console' = ""

\* generateReport: the query returns an error
generateReportError(c) ==
  /\ c \in ReportPending
  /\ c.op = "generateReport"
  /\ reportLoading' = FALSE
  /\ reportCalls' = BagRemove(reportCalls, c)
  /\ console' = c.op
  /\ UNCHANGED <<otherVars, filterChanges, reportClasses, reportStudents, reportCategories, filterVars,
                 reportData, classWideReportData, reportFor>>

\* calculateReportData applied to the logs, students and categories at hand
Calculate ==
  /\ reportData = NoReport
  /\ reportData' = calculateReportData(participation_logs, reportStudents, reportCategories)
  /\ UNCHANGED <<otherVars, filterChanges, reportClasses, reportStudents, reportCategories, filterVars,
                 classWideReportData, reportLoading, reportFor, reportCalls>>
  /\ console' = ""

\* ------------------------------------------------ ReportsPage analytics
\* student names, as the sequences of the collation weights of their letters
StudentNames == {<<1>>, <<1, 2>>, <<2>>}
\* positive points a student has collected in the window
PointTotals == {0, 1, 2}

\* String.prototype.localeCompare: negative, zero or positive
RECURSIVE localeCompare(_, _)
localeCompare(a, b) ==
  IF a = <<>> /\ b = <<>> THEN 0
  ELSE IF a = <<>> THEN 0 - 1
  ELSE IF b = <<>> THEN 1
  ELSE IF Head(a) # Head(b) THEN Head(a) - Head(b)
  ELSE localeCompare(Tail(a), Tail(b))

\* variant of the comparator without the tie-break on the name
compareByPointsOnly(a, b) == b.positivePoints - a.positivePoints

\* the comparator of sortedStudents: positive points descending, then name
compareStudents(a, b) ==
  IF b.positivePoints # a.positivePoints
  THEN b.positivePoints - a.positivePoints
  ELSE localeCompare(a.student.name, b.student.name)

\* Array.prototype.sort is stable: an element goes behind every element
\* that does not compare greater than it
RECURSIVE InsertSorted(_, _)
InsertSorted(x, sorted) ==
  IF sorted = <<>> THEN <<x>>
  ELSE IF compareStudents(Head(sorted), x) > 0 THEN <<x>> \o sorted
  ELSE <<Head(sorted)>> \o InsertSorted(x, Tail(sorted))

RECURSIVE sortedStudents(_)
sortedStudents(all) ==
  IF all = <<>> THEN <<>>
  ELSE InsertSorted(all[Len(all)], sortedStudents(SubSeq(all, 1, Len(all) - 1)))

\* Array.prototype.findIndex on the student id, counted from 0; -1 when no
\* element has it
RECURSIVE findIndex(_, _)
findIndex(list, id) ==
  IF list = <<>> THEN 0 - 1
  ELSE IF Head(list).student.id = id THEN 0
  ELSE LET rest == findIndex(Tail(list), id)
       IN IF rest < 0 THEN rest ELSE rest + 1

\* getAnalyticsData for the selected student s: the rank it puts into
\* studentRankMessage; a student that is not in allStudentsWithPoints gets
\* no message
getAnalyticsData(s) ==
  /\ currentScreen = "reports"
  /\ analytics # None
  /\ LET all == analytics.allStudentsWithPoints
         studentRank == findIndex(sortedStudents(all), s) + 1
     IN /\ Len(all) > 0
        /\ findIndex(all, s) >= 0
        /\ analytics' = [analytics EXCEPT !.studentRank[s] = studentRank]
  /\ UNCHANGED <<dbVars, navVars, trackVars, noteVars, confirmVars, calls,
                 reportClasses, reportStudents, reportCategories, filterVars, reportData,
                 classWideReportData, reportLoading, reportFor, reportCalls, filterChanges,
                 csvData, assistantVars, serviceVars, extraVars>>
  /\ console' = ""

\* getAnalyticsData of a render: which studentComparisonMessage it makes
\* for the selected student from the class-wide report on display ("" for
\* none). The class average is a fraction, compared without rounding
studentComparisonMessage ==
  IF classWideReportData = NoReport \/ reportData = NoReport THEN ""
  ELSE IF reportCategories = {} THEN ""
  ELSE LET all == classWideReportData.allStudentsWithPoints
           classAveragePositivePoints == classWideReportData.averagePositive
           found == {i \in 1..Len(all) : all[i].student = selectedStudentId}
       IN IF selectedStudentId = 0 \/ found = {} THEN ""
          ELSE LET studentPoints == all[CHOOSE i \in found : TRUE].positivePoints
                   scaled == studentPoints * classAveragePositivePoints.denominator
               IN IF scaled > classAveragePositivePoints.numerator
                  THEN "above the class average"
                  ELSE IF scaled < classAveragePositivePoints.numerator
                  THEN "below the class average"
                  ELSE "exactly at the class average"

\* --------------------------------------------------- ReportsPage export
\* exports the user may start
MaxExports == 1
\* flagCategories, the columns after 'Name' and 'Points'
flagCategories ==
  <<"No Feedback-Seeking / Use", "Passive Participation", "Off-Task / Distracted",
    "Inauthentic Work", "Not Following Directions", "Needs Support to Engage",
    "Unprepared for Class", "Low Effort / Incomplete Work">>

\* getDateRangeString
getDateRangeString(range) ==
  IF range.all THEN "All Time"
  ELSE ToString(range.oldest) \o " to " \o ToString(range.newest)

\* the row of one student: name, positive points, and the count of its flags
\* per column
ExportRow(s, logs) ==
  LET Plus(l) == l.student_id = s /\ l.is_positive
      positivePoints == SumPoints(FilterBag(Plus, logs))
      flagCountsByCategory(categoryName) ==
        LET Counted(l) == /\ l.student_id = s
                          /\ ~l.is_positive
                          /\ CategoryName(l) # "Teacher Note"
                          /\ CategoryName(l) = categoryName
        IN BagCardinality(FilterBag(Counted, logs))
  IN <<studentName[s], ToString(positivePoints)>>
       \o [k \in 1..Len(flagCategories) |-> ToString(flagCountsByCategory(flagCategories[k]))]

\* the Export CSV button: exportReport('csv') of the current render starts
\* its query
exportReport(limit) ==
  /\ currentScreen = "reports"
  /\ reportData # NoReport
  /\ Cardinality({c \in ReportPending : c.op = "exportReport"})
       + (IF csvData = None THEN 0 ELSE 1) < limit
  /\ reportCalls' = BagAdd(reportCalls,
       [classes |-> reportClasses] @@
       [ReportCall("exportReport") EXCEPT
          !.classId = selectedClassId,
          !.range = getDateFilter(dateFilter, customStartDate, customEndDate),
          !.students = reportStudents])
  /\ UNCHANGED <<otherVars, filterChanges, reportClasses, reportStudents, reportCategories,
                 filterVars, reportData, classWideReportData, reportLoading, reportFor>>
  /\ console' = ""

\* exportReport: the query answers; two header rows and one row for each
\* student of the closure
exportReportOk(c) ==
  /\ c \in ReportPending
  /\ c.op = "exportReport"
  /\ LET className == IF c.classId \in c.classes THEN ClassNameOf[c.classId] ELSE "Class"
         logs == QueryLogs(c.classId, c.range)
         array == StudentsArray(c.students)
         headerRow1 == <<className>> \o [k \in 1..9 |-> ""]
         headerRow2 == <<getDateRangeString(c.range), "Points">> \o flagCategories
     IN csvData' = [classId |-> c.classId, range |-> c.range,
                    rows |-> <<headerRow1, headerRow2>>
                               \o [i \in 1..Len(array) |-> ExportRow(array[i], logs)]]
  /\ reportCalls' = BagRemove(reportCalls, c)
  /\ UNCHANGED <<dbVars, navVars, trackVars, noteVars, confirmVars, calls, analytics,
                 assistantVars, serviceVars, extraVars, filterChanges, reportClasses, reportStudents, reportCategories, filterVars,
                 reportData, classWideReportData, reportLoading, reportFor>>
  /\ console' = ""

\* exportReport: the query returns an error
exportReportError(c) ==
  /\ c \in ReportPending
  /\ c.op = "exportReport"
  /\ reportCalls' = BagRemove(reportCalls, c)
  /\ console' = "Error exporting CSV:"
  /\ UNCHANGED <<otherVars, filterChanges, reportClasses, reportStudents, reportCategories,
                 filterVars, reportData, classWideReportData, reportLoading, reportFor>>

\* ------------------------------------------------------- AIAssistantPage
MaxMessages == 1
MonthDays == 30

Periods == {"today", "week", "month", "all"}

\* the keywords of getAssistantResponse a typed message contains
AssistantInputs == {{}, {"report"}, {"report", "overview"}, {"intervention"}}

\* getDateFilter of the assistant page: the oldest created_at the logs query
\* keeps, NoRange for null
assistantGetDateFilter(period) ==
  CASE period = "today" -> [all |-> FALSE, oldest |-> 0, newest |-> 0]
    [] period = "week" -> [all |-> FALSE, oldest |-> WeekDays, newest |-> 0]
    [] period = "month" -> [all |-> FALSE, oldest |-> MonthDays, newest |-> 0]
    [] OTHER -> NoRange

AssistantCall(op) ==
  [op |-> op, pc |-> "", classId |-> 0, period |-> "all", students |-> {},
   input |-> {}, classData |-> <<>>, dataFor |-> [classId |-> 0, period |-> "all"],
   categories |-> {}]
AssistantPending == BagToSet(assistantCalls)

\* the effect on [selectedClassId, selectedPeriod]: fetchClassData() of the
\* render that changed one of them; it returns at once without a class
ClassDataEffect(cs, classId, period) ==
  IF classId = 0 THEN cs
  ELSE BagAdd(cs, [AssistantCall("fetchClassData") EXCEPT
                     !.pc = "students", !.classId = classId, !.period = period])

\* fetchClasses of the assistant page answers: the first class is selected
assistantFetchClassesOk(c) ==
  /\ c \in AssistantPending
  /\ c.op = "fetchClasses"
  /\ assistantClasses' = classes
  /\ assistantClassId' = FirstClass(classes)
  /\ assistantCalls' = ClassDataEffect(BagRemove(assistantCalls, c), FirstClass(classes),
                                       selectedPeriod)
  /\ console' = ""
  /\ UNCHANGED exceptAssistant
  /\ UNCHANGED <<selectedPeriod, assistantCategories, classData, classDataFor,
                 assistantLoading, messages, periodChanges>>

assistantFetchCategoriesOk(c) ==
  /\ c \in AssistantPending
  /\ c.op = "fetchCategories"
  /\ assistantCategories' = {k.id : k \in participation_categories}
  /\ assistantCalls' = BagRemove(assistantCalls, c)
  /\ console' = ""
  /\ UNCHANGED exceptAssistant
  /\ UNCHANGED <<assistantClasses, assistantClassId, selectedPeriod, classData,
                 classDataFor, assistantLoading, messages, periodChanges>>

\* fetchClassData: the students query answers and the logs query is sent
fetchClassDataStudents(c) ==
  /\ c \in AssistantPending
  /\ c.op = "fetchClassData"
  /\ c.pc = "students"
  /\ assistantCalls' = BagAdd(BagRemove(assistantCalls, c),
                              [c EXCEPT !.pc = "logs", !.students = StudentsOfClass(c.classId)])
  /\ console' = ""
  /\ UNCHANGED exceptAssistant
  /\ UNCHANGED <<assistantClasses, assistantClassId, selectedPeriod, assistantCategories,
                 classData, classDataFor, assistantLoading, messages, periodChanges>>

\* processedData: per student the logs of the period and the sums of their
\* points by sign
processedData(ids, logs) ==
  [s \in ids |->
     LET Mine(l) == l.student_id = s
         Positive(l) == l.is_positive
         Negative(l) == ~l.is_positive
         studentLogs == FilterBag(Mine, logs)
     IN [positive_points |-> SumPoints(FilterBag(Positive, studentLogs)),
         negative_points |-> SumPoints(FilterBag(Negative, studentLogs)),
         logs |-> studentLogs]]

\* fetchClassData: the logs query answers and classData is set
fetchClassDataLogs(c) ==
  /\ c \in AssistantPending
  /\ c.op = "fetchClassData"
  /\ c.pc = "logs"
  /\ LET range == assistantGetDateFilter(c.period)
         Keep(l) == l.student_id \in c.students /\ InRange(l, range)
     IN classData' = processedData(c.students, FilterBag(Keep, participation_logs))
  /\ classDataFor' = [classId |-> c.classId, period |-> c.period]
  /\ assistantCalls' = BagRemove(assistantCalls, c)
  /\ console' = ""
  /\ UNCHANGED exceptAssistant
  /\ UNCHANGED <<assistantClasses, assistantClassId, selectedPeriod, assistantCategories,
                 assistantLoading, messages, periodChanges>>

\* a query of the assistant page returns an error: the catch block logs it
assistantFetchError(c) ==
  /\ c \in AssistantPending
  /\ c.op \in {"fetchClasses", "fetchCategories", "fetchClassData"}
  /\ assistantCalls' = BagRemove(assistantCalls, c)
  /\ console' = CASE c.op = "fetchClasses" -> "Error fetching classes:"
                  [] c.op = "fetchCategories" -> "Error fetching categories:"
                  [] OTHER -> "Error fetching class data:"
  /\ UNCHANGED exceptAssistant
  /\ UNCHANGED <<assistantClasses, assistantClassId, selectedPeriod, assistantCategories,
                 classData, classDataFor, assistantLoading, messages, periodChanges>>

\* the class <select> of the assistant page
assistantSetSelectedClassId(k, limit) ==
  /\ k \in assistantClasses
  /\ k # assistantClassId
  /\ periodChanges < limit
  /\ periodChanges' = periodChanges + 1
  /\ assistantClassId' = k
  /\ assistantCalls' = ClassDataEffect(assistantCalls, k, selectedPeriod)
  /\ console' = ""
  /\ UNCHANGED exceptAssistant
  /\ UNCHANGED <<assistantClasses, selectedPeriod, assistantCategories, classData,
                 classDataFor, assistantLoading, messages>>

\* the period <select>
setSelectedPeriod(p, limit) ==
  /\ p \in Periods
  /\ p # selectedPeriod
  /\ periodChanges < limit
  /\ periodChanges' = periodChanges + 1
  /\ selectedPeriod' = p
  /\ assistantCalls' = ClassDataEffect(assistantCalls, assistantClassId, p)
  /\ console' = ""
  /\ UNCHANGED exceptAssistant
  /\ UNCHANGED <<assistantClasses, assistantClassId, assistantCategories, classData,
                 classDataFor, assistantLoading, messages>>

\* which phrase list getPerformanceDescription draws from (getRandomElement
\* picks one phrase of the list)
getPerformanceDescription(positivePoints, alertCount) ==
  IF positivePoints = 0 /\ alertCount = 0 THEN "quietPresence"
  ELSE LET severity == IF alertCount = 0 THEN "mild"
                       ELSE IF alertCount <= 2 THEN "moderate" ELSE "high"
       IN IF positivePoints = 0
          THEN CASE severity = "mild" -> "quietPresence"
                 [] severity = "moderate" -> "lowEngagementWithConcerns"
                 [] OTHER -> "noEngagementHighConcerns"
          ELSE CASE severity = "mild" -> "excellent"
                 [] severity = "moderate" -> "good"
                 [] OTHER -> "concerning"

getRecommendations(alertCount, positivePoints) ==
  IF alertCount = 0 \/ (alertCount = 1 /\ positivePoints > 15) THEN "minor"
  ELSE IF alertCount <= 2 THEN "moderate" ELSE "intensive"

getConcludingRemark(alertCount, positivePoints) ==
  IF positivePoints = 0
  THEN IF alertCount = 0 THEN "encourageParticipation"
       ELSE IF alertCount <= 2 THEN "addressBothIssues" ELSE "urgentIntervention"
  ELSE IF alertCount = 0 /\ positivePoints > 20 THEN "excellent"
       ELSE IF alertCount <= 1 THEN "good" ELSE "needsSupport"

\* categories.find(c => c.id === log.category_id)?.name !== 'Teacher Note'
NotTeacherNote(l, cats) ==
  ~(l.category_id \in cats /\ CategoryById(l.category_id).name = "Teacher Note")

\* the paragraph of the individual report for one entry of classData
StudentNarrative(student, cats) ==
  LET Positive(l) == l.is_positive
      Alert(l) == ~l.is_positive /\ NotTeacherNote(l, cats)
      Concern(l) == ~l.is_positive /\ l.category_id \in cats
      totalPositive == BagCardinality(FilterBag(Positive, student.logs))
      alertCount == BagCardinality(FilterBag(Alert, student.logs))
  IN IF totalPositive = 0
     THEN IF alertCount = 0
          THEN [branch |-> "maintained a quiet presence", alerts |-> 0,
                description |-> "", concern |-> FALSE, recommendation |-> "",
                conclusion |-> ""]
          ELSE [branch |-> "behavioral alerts recorded", alerts |-> alertCount,
                description |-> "", concern |-> FALSE, recommendation |-> "",
                conclusion |-> ""]
     ELSE [branch |-> "summary", alerts |-> alertCount,
           description |-> getPerformanceDescription(student.positive_points, alertCount),
           concern |-> BagCardinality(FilterBag(Concern, student.logs)) > 0,
           recommendation |-> getRecommendations(alertCount, student.positive_points),
           conclusion |-> getConcludingRemark(alertCount, student.positive_points)]

\* getAssistantResponse over the state of one render
getAssistantResponse(input, classId, data, cats) ==
  IF classId = 0 \/ DOMAIN data = {}
  THEN [kind |-> "Please select a class first", narrative |-> <<>>]
  ELSE IF "overview" \in input THEN [kind |-> "overview", narrative |-> <<>>]
  ELSE IF "top" \in input THEN [kind |-> "top", narrative |-> <<>>]
  ELSE IF "attention" \in input THEN [kind |-> "attention", narrative |-> <<>>]
  ELSE IF "report" \in input
       THEN [kind |-> "report",
             narrative |-> [s \in DOMAIN data |-> StudentNarrative(data[s], cats)]]
  ELSE IF "intervention" \in input THEN [kind |-> "intervention", narrative |-> <<>>]
  ELSE [kind |-> "help", narrative |-> <<>>]

\* handleSendMessage up to its one-second wait; the call keeps the state of
\* the render whose button was pressed
handleSendMessage(input, limit) ==
  /\ input \in AssistantInputs
  /\ input # {}
  /\ ~assistantLoading
  /\ Len(messages) < limit
  /\ assistantLoading' = TRUE
  /\ assistantCalls' = BagAdd(assistantCalls,
       [AssistantCall("handleSendMessage") EXCEPT
          !.input = input, !.classId = assistantClassId, !.classData = classData,
          !.dataFor = classDataFor, !.categories = assistantCategories,
          !.period = selectedPeriod])
  /\ console' = ""
  /\ UNCHANGED exceptAssistant
  /\ UNCHANGED <<assistantClasses, assistantClassId, selectedPeriod, assistantCategories,
                 classData, classDataFor, messages, periodChanges>>

\* handleSendMessage after the wait: the assistant message is appended; it
\* is kept with the class and period its classData was loaded for
handleSendMessageDone(c) ==
  /\ c \in AssistantPending
  /\ c.op = "handleSendMessage"
  /\ messages' = Append(messages,
       getAssistantResponse(c.input, c.classId, c.classData, c.categories)
         @@ [dataFor |-> c.dataFor])
  /\ assistantLoading' = FALSE
  /\ assistantCalls' = BagRemove(assistantCalls, c)
  /\ console' = ""
  /\ UNCHANGED exceptAssistant
  /\ UNCHANGED <<assistantClasses, assistantClassId, selectedPeriod, assistantCategories,
                 classData, classDataFor, periodChanges>>

\* ------------------------------------------------------------------ Next
NavStep ==
  \/ \E c \in ClassIds : handleNavigateToClass(c)
  \/ handleNavigateToTracking
  \/ handleNavigateBack

\* the user acts on the tracking page; at most `limit` handlers are pending
TrackStep(limit) ==
  \/ \E s \in StudentIds : handleStudentClick(s)
  \/ \E v \in PositiveValues : PositiveValueButton(v, limit)
  \/ ParticipationFlagsButton
  \/ \E c \in {x.id : x \in AllCategories} : handleCategorySelection(c, limit)
  \/ handleAddNote
  \/ CancelPointModal
  \/ CancelCategoryModal
  \/ CloseNote
  \/ \E t \in NoteTexts : setNoteText(t)
  \/ handleSaveNote(limit)

\* the user acts on the class page or the main page
AdminStep(limit) ==
  \/ \E s \in StudentIds : setStudentToReset(s)
  \/ \E s \in StudentIds : setStudentToDelete(s)
  \/ CancelConfirm
  \/ handleDeleteStudent(limit)
  \/ handleResetStudentPoints(limit)
  \/ \E c \in ClassIds : setClassToDelete(c)
  \/ \E c \in ClassIds : handleResetClassPoints(c)
  \/ handleDeleteClass(limit)
  \/ confirmResetClassPoints(limit)

\* the database answers a request of a pending handler of the tracking page
TrackResponse ==
  \E c \in Pending :
    \/ AddPointsSelectDefault(c)
    \/ AddPointsInsertOk(c)
    \/ AddPointsInsertError(c)
    \/ SaveNoteSelectCategory(c)
    \/ SaveNoteInsertOk(c)
    \/ SaveNoteInsertError(c)

\* the database answers a request of a pending handler of the other pages
AdminResponse ==
  \E c \in Pending :
    \/ DeleteStudentOk(c)
    \/ DeleteStudentError(c)
    \/ ResetStudentDeleteLogs(c)
    \/ ResetStudentUpdateTotals(c)
    \/ ResetStudentError(c)
    \/ DeleteClassOk(c)
    \/ DeleteClassError(c)
    \/ ResetClassSelectStudents(c)
    \/ ResetClassDeleteLogs(c)
    \/ ResetClassUpdateTotals(c)
    \/ ResetClassError(c)

\* the tracking page of a teacher's one class, mounted with its students and
\* categories fetched: handlers overlap with each other and with the user's
\* next clicks
Init ==
  /\ InitDb({1})
  /\ InitPages
  /\ NoAnalysis
  /\ currentScreen = "tracking"
  /\ currentClassId = 1
  /\ trackStudents = StudentsOfClass(1)
  /\ categories = {c.id : c \in participation_categories}
  /\ reportStudents = {}
  /\ reportCategories = {}
  /\ reportCalls = EmptyBag
Next == TrackStep(MaxInFlight) \/ TrackResponse
Spec == Init /\ [][Next]_vars

\* every page, over both classes; each operation finishes before the next
\* one is started
InitSeq ==
  /\ InitDb(ClassIds)
  /\ InitPages
  /\ NoAnalysis
  /\ currentScreen = "main"
  /\ currentClassId = 0
  /\ trackStudents = {}
  /\ categories = {}
  /\ reportStudents = {}
  /\ reportCategories = {}
  /\ reportCalls = EmptyBag
NextSeq == NavStep \/ TrackStep(1) \/ AdminStep(1) \/ TrackResponse \/ AdminResponse
SpecSeq == InitSeq /\ [][NextSeq]_vars

\* the tracking page and the class page of one class: an award whose point
\* modal was cancelled is still pending when the teacher goes back to the
\* class page and resets a student's points
NextRace ==
  \/ handleNavigateBack
  \/ \E s \in StudentIds : handleStudentClick(s)
  \/ \E v \in PositiveValues : PositiveValueButton(v, MaxRacing)
  \/ CancelPointModal
  \/ \E s \in StudentIds : setStudentToReset(s)
  \/ CancelConfirm
  \/ handleResetStudentPoints(MaxRacing)
  \/ \E c \in Pending :
       \/ AddPointsSelectDefault(c)
       \/ AddPointsInsertOk(c)
       \/ AddPointsInsertError(c)
       \/ ResetStudentDeleteLogs(c)
       \/ ResetStudentUpdateTotals(c)
       \/ ResetStudentError(c)
SpecRace == Init /\ [][NextRace]_vars

\* one interaction of the tracking page: a student is selected while no log
\* has been written and no handler runs, and the buttons of the modals can
\* be activated again while an insert is pending (no button is disabled and
\* handleAddPoints keeps no loading flag)
InitOnce ==
  /\ InitDb({1})
  /\ InitPages
  /\ NoAnalytics /\ NoExport /\ NoAssistant /\ NoStatement /\ NoRequest
  /\ NothingStarted
  /\ tableCapacity = MaxInteractionLogs
  /\ currentScreen = "tracking"
  /\ currentClassId = 1
  /\ trackStudents = StudentsOfClass(1)
  /\ categories = {c.id : c \in participation_categories}
  /\ reportStudents = {}
  /\ reportCategories = {}
  /\ reportCalls = EmptyBag
NextOnce ==
  \/ \E s \in StudentIds :
       /\ calls = EmptyBag
       /\ participation_logs = EmptyBag
       /\ handleStudentClick(s)
  \/ \E v \in PositiveValues : PositiveValueButton(v, MaxRacing)
  \/ ParticipationFlagsButton
  \/ \E c \in {x.id : x \in AllCategories} : handleCategorySelection(c, MaxRacing)
  \/ CancelPointModal
  \/ CancelCategoryModal
  \/ \E c \in Pending :
       \/ AddPointsSelectDefault(c)
       \/ AddPointsInsertOk(c)
       \/ AddPointsInsertError(c)
SpecOnce == InitOnce /\ [][NextOnce]_vars

\* the user changes a select of the reports page, at most `limit` times, and
\* then types the dates of a custom period
ReportStep(limit) ==
  \/ \E c \in ClassIds : setSelectedClassId(c, limit)
  \/ \E s \in StudentIds \cup {0} : setSelectedStudentId(s, limit)
  \/ \E f \in DateFilters : setDateFilter(f, limit)
  \/ \E d \in DateInputs : setCustomStartDate(d, limit + MaxDateInputs)
  \/ \E d \in DateInputs : setCustomEndDate(d, limit + MaxDateInputs)

\* the database answers a request of the reports page
ReportResponse ==
  \E c \in ReportPending :
    \/ fetchClassesOk(c)
    \/ fetchCategoriesOk(c)
    \/ fetchStudentsOk(c)
    \/ fetchError(c)
    \/ generateReportOk(c)
    \/ generateReportError(c)

\* the logs the app writes (an award, a flag, a note), with their age
AppRows ==
  {[student_id |-> s, category_id |-> k.category.id, points |-> k.points,
    is_positive |-> k.category.is_positive, created_at |-> a] :
     s \in StudentIds, a \in {0, 8},
     k \in {[category |-> CatExcellent, points |-> 2], [category |-> CatDisruption, points |-> 1],
            [category |-> CatUnprepared, points |-> 1], [category |-> CatTeacherNote, points |-> 0]}}

\* the logs the table admits: any student, category, sign and points
AnyRows ==
  [student_id : StudentIds, category_id : {c.id : c \in AllCategories},
   points : {0, 1, 2}, is_positive : BOOLEAN, created_at : LogAges]

\* the bags of at most n rows of S
RECURSIVE BagsOf(_, _)
BagsOf(S, n) ==
  IF n = 0 THEN {EmptyBag}
  ELSE LET smaller == BagsOf(S, n - 1)
       IN smaller \cup {BagAdd(B, r) : B \in smaller, r \in S}

\* the totals the trigger has kept for the rows of B
TotalsOf(B, s, positive) ==
  LET Keep(l) == l.student_id = s /\ l.is_positive = positive
  IN SumPoints(FilterBag(Keep, B))

\* a database with both classes and the logs B
InitDbWith(B) ==
  /\ classes = ClassIds
  /\ participation_logs = B
  /\ students = [s \in StudentIds |->
                   [class_id |-> SeedClassOf[s],
                    total_positive_points |-> TotalsOf(B, s, TRUE),
                    total_negative_points |-> TotalsOf(B, s, FALSE)]]
  /\ participation_categories = AllCategories

\* the reports page right after it mounted: its mount effect has called
\* fetchClasses() and fetchCategories()
InitReport ==
  /\ \E B \in BagsOf(AppRows, MaxReportLogs) : InitDbWith(B)
  /\ InitPages
  /\ NoAnalysis
  /\ currentScreen = "reports"
  /\ currentClassId = 0
  /\ trackStudents = {}
  /\ categories = {}
  /\ reportStudents = {}
  /\ reportCategories = {}
  /\ reportCalls = SetToBag({ReportCall("fetchClasses"), ReportCall("fetchCategories")})
NextReport == ReportStep(MaxFilterChanges) \/ ReportResponse
SpecReport == InitReport /\ [][NextReport]_vars

\* calculateReportData over any logs, students and categories
InitCalc ==
  /\ \E B \in BagsOf(AnyRows, MaxReportLogs) : InitDbWith(B)
  /\ InitPages
  /\ NoAnalysis
  /\ currentScreen = "reports"
  /\ currentClassId = 0
  /\ trackStudents = {}
  /\ categories = {}
  /\ reportStudents \in SUBSET StudentsOfClass(1)
  /\ reportCategories \in {{}, {c.id : c \in AllCategories}}
  /\ reportCalls = EmptyBag
NextCalc == Calculate
SpecCalc == InitCalc /\ [][NextCalc]_vars

\* an application with nothing pending, showing the given screen
Quiet(screen) ==
  /\ InitDb({1})
  /\ InitPages
  /\ currentScreen = screen
  /\ currentClassId = 0
  /\ trackStudents = {}
  /\ categories = {}
  /\ reportStudents = {}
  /\ reportCategories = {}
  /\ reportCalls = EmptyBag

\* logs of one report the breakdown is computed over
MaxBreakdownLogs == 2
\* names the students of a class may have been given
BreakdownNames == {"Ada", "Ben"}
\* the logs of the students of class 1
ClassRows == {r \in AppRows : SeedClassOf[r.student_id] = 1}

\* calculateReportData over the logs of a class whose students have any
\* names, with the students and categories of the class loaded
InitBreakdown ==
  /\ \E B \in BagsOf(ClassRows, MaxBreakdownLogs) : InitDbWith(B)
  /\ InitPages
  /\ NoAnalytics
  /\ NoExport
  /\ NoAssistant
  /\ NoStatement
  /\ NoRequest
  /\ studentName \in [StudentIds -> BreakdownNames]
  /\ NoTrend
  /\ NoForms
  /\ tableCapacity = MaxLogs
  /\ NoSpeech
  /\ NoCamera
  /\ NoAuth
  /\ currentScreen = "reports"
  /\ currentClassId = 0
  /\ trackStudents = {}
  /\ categories = {}
  /\ reportStudents = StudentsOfClass(1)
  /\ reportCategories = {c.id : c \in AllCategories}
  /\ reportCalls = EmptyBag
NextBreakdown == Calculate
SpecBreakdown == InitBreakdown /\ [][NextBreakdown]_vars

\* -------------------------------------- ReportsPage daily trend and clocks
\* what the pages and services above hold, apart from the console
pageVars == <<dbVars, navVars, trackVars, noteVars, confirmVars, calls, reportClasses,
              reportStudents, reportCategories, filterVars, reportData,
              classWideReportData, reportLoading, reportFor, reportCalls,
              filterChanges, analytics, csvData, assistantVars, serviceVars>>
\* an application with nothing pending and none of the pages above in use
QuietApp(screen) ==
  /\ Quiet(screen)
  /\ NoAnalytics
  /\ NoExport
  /\ NoAssistant
  /\ NoStatement
  /\ NoRequest

HoursPerDay == 24
\* the local hour at which a time zone changes its offset
ChangeHour == 2
\* time zones of a browser: the offset from UTC in hours before and from the
\* local day `change` on (equal offsets: no daylight saving time)
TimeZones ==
  {[before |-> 0, after |-> 0, change |-> 0],
   [before |-> 10, after |-> 10, change |-> 0],
   [before |-> 0 - 5, after |-> 0 - 5, change |-> 0],
   [before |-> 0 - 5, after |-> 0 - 4, change |-> 8],
   [before |-> 0 - 4, after |-> 0 - 5, change |-> 8]}
\* the local day and the local hours at which the report is computed
TrendToday == 10
TrendHours == {9, 19}
\* created_at of the logs, in hours of UTC
TrendInstants == {7 * HoursPerDay + 23, 8 * HoursPerDay + 12, 10 * HoursPerDay + 1}
\* logs handed to calculateReportData
MaxTrendLogs == 2
TrendRows ==
  {[student_id |-> 1, category_id |-> k.category.id, points |-> k.points,
    is_positive |-> k.category.is_positive, created_at |-> t] :
     t \in TrendInstants,
     k \in {[category |-> CatExcellent, points |-> 2], [category |-> CatDisruption, points |-> 1],
            [category |-> CatTeacherNote, points |-> 0]}}

\* the instant (hours of UTC) of a local day and hour in a zone, as the Date
\* setters compute it
InstantOf(zone, day, hour) ==
  LET local == day * HoursPerDay + hour
      offset == IF local < zone.change * HoursPerDay + ChangeHour
                THEN zone.before ELSE zone.after
  IN local - offset

\* the local day of an instant in a zone
LocalDayOf(zone, t) ==
  LET offset == IF t < zone.change * HoursPerDay + ChangeHour - zone.before
                THEN zone.before ELSE zone.after
  IN (t + offset) \div HoursPerDay

\* d.toISOString().split('T')[0]: the UTC day of an instant
UtcDayOf(t) == t \div HoursPerDay

\* the daily trend loop of calculateReportData: for i = 6 .. 0, d is now with
\* its local date set i days back, day is the UTC date of d, and the bucket
\* sums the positive and the behavioural alert logs whose created_at starts
\* with day; date is the local weekday of d
dailyData(logs) ==
  LET Positive(l) == l.is_positive
      Alert(l) == ~l.is_positive /\ CategoryName(l) # "Teacher Note"
      positiveLogs == FilterBag(Positive, logs)
      behavioralAlertLogs == FilterBag(Alert, logs)
      Bucket(i) ==
        LET d == InstantOf(trendZone, trendNow.day - i, trendNow.hour)
            day == UtcDayOf(d)
            On(l) == UtcDayOf(l.created_at) = day
        IN [date |-> (trendNow.day - i) % WeekDays,
            positive |-> SumPoints(FilterBag(On, positiveLogs)),
            negative |-> SumPoints(FilterBag(On, behavioralAlertLogs))]
  IN [n \in 1..TrendDays |-> Bucket(TrendDays - n)]

\* calculateReportData computing the daily trend of the logs
calculateDailyData ==
  /\ trendData = None
  /\ trendData' = dailyData(trendLogs)
  /\ UNCHANGED <<pageVars, studentName, trendNow, trendZone, trendLogs, formVars, speechVars, cameraVars, authVars, tableCapacity>>
  /\ console' = ""

\* the daily trend at any of the hours, in any of the zones, over logs made
\* before now
InitTrend ==
  /\ QuietApp("reports")
  /\ studentName = StudentNameOf
  /\ NoForms
  /\ tableCapacity = MaxLogs
  /\ NoSpeech
  /\ NoCamera
  /\ NoAuth
  /\ trendNow \in [day : {TrendToday}, hour : TrendHours]
  /\ trendZone \in TimeZones
  /\ trendLogs \in BagsOf(TrendRows, MaxTrendLogs)
  /\ \A l \in BagToSet(trendLogs) :
       l.created_at <= InstantOf(trendZone, trendNow.day, trendNow.hour)
  /\ trendData = None
NextTrend == calculateDailyData
SpecTrend == InitTrend /\ [][NextTrend]_vars

\* ------------------------- ContactFeedbackModal and AuthForm password reset
\* what the user may type, as sequences of characters
FormNames == {<<>>, <<" ">>, <<"a">>}
FormEmails ==
  {<<>>, <<"a">>, <<"a", "@", "a">>, <<"a", "@", "a", ".", "a">>, <<".", "@", "a">>,
   <<"a", "@", ".", "a">>, <<"a", "@", "@", "a", ".", "a">>,
   <<"a", "@", "a", ".", "a", ".", "a">>, <<"a", " ", "@", "a", ".", "a">>}
MinPasswordLength == 6
Repeat(ch, n) == [i \in 1..n |-> ch]
Passwords ==
  {<<>>, Repeat("a", MinPasswordLength - 1), Repeat("a", MinPasswordLength),
   Repeat("b", MinPasswordLength)}

\* [^\s@]+ : a non-empty string without a space or an @
Plain(t) == t # <<>> /\ \A i \in 1..Len(t) : t[i] \notin {" ", "@"}

\* emailRegex.test: /^[^\s@]+@[^\s@]+\.[^\s@]+$/
emailRegex(t) ==
  \E i \in 1..Len(t) : \E j \in 1..Len(t) :
    /\ i < j
    /\ t[i] = "@"
    /\ t[j] = "."
    /\ Plain(SubSeq(t, 1, i - 1))
    /\ Plain(SubSeq(t, i + 1, j - 1))
    /\ Plain(SubSeq(t, j + 1, Len(t)))

\* a label of a domain: non-empty, letters only
Label(t) == t # <<>> /\ \A i \in 1..Len(t) : t[i] = "a"
\* a domain: labels separated by dots
RECURSIVE Domain(_)
Domain(t) ==
  \/ Label(t)
  \/ \E j \in 1..Len(t) :
       t[j] = "." /\ Label(SubSeq(t, 1, j - 1)) /\ Domain(SubSeq(t, j + 1, Len(t)))

\* the constraint validation of <input type="email" required>: the browser
\* submits the form only with a non-empty value of the form local@domain
EmailInputValid(t) ==
  \E i \in 1..Len(t) :
    /\ t[i] = "@"
    /\ i > 1
    /\ \A k \in 1..(i - 1) : t[k] \in {"a", "."}
    /\ Domain(SubSeq(t, i + 1, Len(t)))

\* handleInputChange(field, value) for the name and the email
handleInputChange(field, value) ==
  /\ ~feedbackForm.success
  /\ feedbackForm' = [feedbackForm EXCEPT ![field] = value]
  /\ lastSubmit' = ""
  /\ UNCHANGED <<pageVars, studentName, trendVars, speechVars, cameraVars, authVars, tableCapacity, passwordForm, formCalls>>
  /\ console' = ""

\* the validation of handleSubmit: the error it sets, "" when it passes
feedbackValidation(form) ==
  IF Trim(form.name) = <<>> THEN "Name is required"
  ELSE IF Trim(form.email) = <<>> THEN "Email is required"
  ELSE IF ~emailRegex(form.email) THEN "Please enter a valid email address"
  ELSE ""

\* variant of handleSubmit that sets loading before it validates
handleSubmitLoadingFirst ==
  /\ ~feedbackForm.success
  /\ ~feedbackForm.loading
  /\ feedbackForm.name # <<>>
  /\ EmailInputValid(feedbackForm.email)
  /\ IF feedbackValidation(feedbackForm) # ""
     THEN /\ feedbackForm' = [feedbackForm EXCEPT !.loading = TRUE,
                                !.error = feedbackValidation(feedbackForm)]
          /\ UNCHANGED formCalls
     ELSE /\ feedbackForm' = [feedbackForm EXCEPT !.loading = TRUE, !.error = ""]
          /\ formCalls' = formCalls \cup {"fetch"}
  /\ lastSubmit' = "feedback"
  /\ UNCHANGED <<pageVars, studentName, trendVars, speechVars, cameraVars, authVars, tableCapacity, passwordForm>>
  /\ console' = ""

\* handleSubmit up to its await; the submit button is disabled while loading
\* and the browser submits only when the required name is non-empty and the
\* email input is valid
handleSubmit ==
  /\ ~feedbackForm.success
  /\ ~feedbackForm.loading
  /\ feedbackForm.name # <<>>
  /\ EmailInputValid(feedbackForm.email)
  /\ IF feedbackValidation(feedbackForm) # ""
     THEN /\ feedbackForm' = [feedbackForm EXCEPT !.error = feedbackValidation(feedbackForm)]
          /\ UNCHANGED formCalls
     ELSE /\ feedbackForm' = [feedbackForm EXCEPT !.loading = TRUE, !.error = ""]
          /\ formCalls' = formCalls \cup {"fetch"}
  /\ lastSubmit' = "feedback"
  /\ UNCHANGED <<pageVars, studentName, trendVars, speechVars, cameraVars, authVars, tableCapacity, passwordForm>>
  /\ console' = ""

\* handleSubmit after its await: response.ok, then setSuccess(true)
handleSubmitOk ==
  /\ "fetch" \in formCalls
  /\ formCalls' = formCalls \ {"fetch"}
  /\ feedbackForm' = [feedbackForm EXCEPT !.success = TRUE, !.loading = FALSE]
  /\ lastSubmit' = ""
  /\ UNCHANGED <<pageVars, studentName, trendVars, speechVars, cameraVars, authVars, tableCapacity, passwordForm>>
  /\ console' = ""

\* handleSubmit after its await: fetch rejects or the response is not ok
handleSubmitFailed ==
  /\ "fetch" \in formCalls
  /\ formCalls' = formCalls \ {"fetch"}
  /\ feedbackForm' = [feedbackForm EXCEPT
                        !.error = "Failed to send feedback. Please try again later.",
                        !.loading = FALSE]
  /\ lastSubmit' = ""
  /\ UNCHANGED <<pageVars, studentName, trendVars, speechVars, cameraVars, authVars, tableCapacity, passwordForm>>
  /\ console' = "Error sending feedback:"

\* setNewPassword and setConfirmPassword
setNewPassword(value) ==
  /\ passwordForm' = [passwordForm EXCEPT !.newPassword = value]
  /\ lastSubmit' = ""
  /\ UNCHANGED <<pageVars, studentName, trendVars, speechVars, cameraVars, authVars, tableCapacity, feedbackForm, formCalls>>
  /\ console' = ""

setConfirmPassword(value) ==
  /\ passwordForm' = [passwordForm EXCEPT !.confirmPassword = value]
  /\ lastSubmit' = ""
  /\ UNCHANGED <<pageVars, studentName, trendVars, speechVars, cameraVars, authVars, tableCapacity, feedbackForm, formCalls>>
  /\ console' = ""

\* the validation of handleUpdatePassword: the error it sets, "" when it passes
passwordValidation(form) ==
  IF form.newPassword # form.confirmPassword THEN "Passwords do not match"
  ELSE IF Len(form.newPassword) < MinPasswordLength
       THEN "Password must be at least 6 characters long"
  ELSE ""

\* handleUpdatePassword up to its await; the submit button is disabled while
\* loading and both inputs are required
handleUpdatePassword ==
  /\ ~passwordForm.loading
  /\ passwordForm.newPassword # <<>>
  /\ passwordForm.confirmPassword # <<>>
  /\ IF passwordValidation(passwordForm) # ""
     THEN /\ passwordForm' = [passwordForm EXCEPT !.error = passwordValidation(passwordForm)]
          /\ UNCHANGED formCalls
     ELSE /\ passwordForm' = [passwordForm EXCEPT !.loading = TRUE, !.error = ""]
          /\ formCalls' = formCalls \cup {"updateUser"}
  /\ lastSubmit' = "password"
  /\ UNCHANGED <<pageVars, studentName, trendVars, speechVars, cameraVars, authVars, tableCapacity, feedbackForm>>
  /\ console' = ""

\* handleUpdatePassword after its await: updateUser answers without an error
\* or with one, whose message becomes the error
handleUpdatePasswordDone(message) ==
  /\ "updateUser" \in formCalls
  /\ formCalls' = formCalls \ {"updateUser"}
  /\ passwordForm' = [passwordForm EXCEPT
                        !.error = IF message = "" THEN @ ELSE message,
                        !.loading = FALSE]
  /\ lastSubmit' = ""
  /\ UNCHANGED <<pageVars, studentName, trendVars, speechVars, cameraVars, authVars, tableCapacity, feedbackForm>>
  /\ console' = ""

\* the two forms open, the user typing and submitting
InitForms ==
  /\ QuietApp("main")
  /\ studentName = StudentNameOf
  /\ NoTrend
  /\ NoForms
  /\ tableCapacity = MaxLogs
  /\ NoSpeech
  /\ NoCamera
  /\ NoAuth
NextForms ==
  \/ \E v \in FormNames : handleInputChange("name", v)
  \/ \E v \in FormEmails : handleInputChange("email", v)
  \/ handleSubmit
  \/ handleSubmitOk
  \/ handleSubmitFailed
  \/ \E v \in Passwords : setNewPassword(v)
  \/ \E v \in Passwords : setConfirmPassword(v)
  \/ handleUpdatePassword
  \/ \E message \in {"", "Auth session missing!"} : handleUpdatePasswordDone(message)
SpecForms == InitForms /\ [][NextForms]_vars

\* ------------------------------------------ AddNoteModal speech recognition
\* what the tracking page, the database and the other pages hold apart from
\* the note modal's text and error
exceptNote == <<dbVars, navVars, trackVars, loading, confirmVars, calls, reportClasses,
                reportStudents, reportCategories, filterVars, reportData,
                classWideReportData, reportLoading, reportFor, reportCalls,
                filterChanges, analytics, csvData, assistantVars, serviceVars,
                studentName, trendVars, formVars, cameraVars, authVars, tableCapacity>>
\* the longest note the recognition results are appended to
MaxNoteLength == 3
\* event.error of an error event
RecognitionErrors == {"not-allowed", "no-speech", "network"}

\* startRecording: recognition.start() throws when recognition has started
startRecording ==
  /\ currentScreen = "tracking"
  /\ NoteVisible
  /\ isSupported
  /\ ~isRecording
  /\ permissionDenied' = FALSE
  /\ IF recognition = "idle"
     THEN /\ recognition' = "started"
          /\ error' = ""
          /\ console' = ""
     ELSE /\ error' = "Failed to start voice recording. Please try again."
          /\ console' = "Error starting speech recognition:"
          /\ UNCHANGED recognition
  /\ recognitionEvent' = ""
  /\ UNCHANGED <<exceptNote, noteText, isRecording, isSupported>>

\* stopRecording
stopRecording ==
  /\ currentScreen = "tracking"
  /\ NoteVisible
  /\ isSupported
  /\ isRecording
  /\ recognition' = IF recognition = "started" THEN "stopping" ELSE recognition
  /\ recognitionEvent' = ""
  /\ UNCHANGED <<exceptNote, noteText, error, isRecording, isSupported, permissionDenied>>
  /\ console' = ""

\* recognition.onstart
onstart ==
  /\ NoteVisible
  /\ recognition = "started"
  /\ isRecording' = TRUE
  /\ error' = ""
  /\ permissionDenied' = FALSE
  /\ recognitionEvent' = "start"
  /\ UNCHANGED <<exceptNote, noteText, isSupported, recognition>>
  /\ console' = ""

\* recognition.onresult with the final transcript of the event ("" when its
\* results are interim)
onresult(finalTranscript) ==
  /\ NoteVisible
  /\ recognition \in {"started", "stopping"}
  /\ Len(noteText) + Len(finalTranscript) + 1 <= MaxNoteLength
  /\ noteText' = IF finalTranscript # <<>> THEN noteText \o finalTranscript \o <<" ">>
                 ELSE noteText
  /\ recognitionEvent' = "result"
  /\ UNCHANGED <<exceptNote, error, isRecording, isSupported, permissionDenied, recognition>>
  /\ console' = ""

\* variant of recognition.onerror that keeps recording after 'no-speech'
onerrorStillRecording(kind) ==
  /\ NoteVisible
  /\ recognition \in {"started", "stopping"}
  /\ isRecording' = IF kind = "no-speech" THEN isRecording ELSE FALSE
  /\ permissionDenied' = IF kind = "not-allowed" THEN TRUE ELSE permissionDenied
  /\ error' = IF kind = "not-allowed"
              THEN "Microphone access denied. Please enable microphone permissions and try again."
              ELSE IF kind = "no-speech" THEN "No speech detected. Please try speaking again."
              ELSE "Speech recognition error: " \o kind
  /\ recognitionEvent' = "error"
  /\ UNCHANGED <<exceptNote, noteText, isSupported, recognition>>
  /\ console' = "Speech recognition error:"

\* recognition.onerror
onerror(kind) ==
  /\ NoteVisible
  /\ recognition \in {"started", "stopping"}
  /\ isRecording' = FALSE
  /\ permissionDenied' = IF kind = "not-allowed" THEN TRUE ELSE permissionDenied
  /\ error' = IF kind = "not-allowed"
              THEN "Microphone access denied. Please enable microphone permissions and try again."
              ELSE IF kind = "no-speech" THEN "No speech detected. Please try speaking again."
              ELSE "Speech recognition error: " \o kind
  /\ recognitionEvent' = "error"
  /\ UNCHANGED <<exceptNote, noteText, isSupported, recognition>>
  /\ console' = "Speech recognition error:"

\* recognition.onend
onend ==
  /\ NoteVisible
  /\ recognition \in {"started", "stopping"}
  /\ isRecording' = FALSE
  /\ recognition' = "idle"
  /\ recognitionEvent' = "end"
  /\ UNCHANGED <<exceptNote, noteText, error, isSupported, permissionDenied>>
  /\ console' = ""

\* clearNote
clearNote ==
  /\ currentScreen = "tracking"
  /\ NoteVisible
  /\ noteText # <<>>
  /\ noteText' = <<>>
  /\ error' = ""
  /\ recognitionEvent' = ""
  /\ UNCHANGED <<exceptNote, isRecording, isSupported, permissionDenied, recognition>>
  /\ console' = ""

\* the note modal just mounted for student 1 on the tracking page, in a
\* browser with or without speech recognition; its mount effect has set
\* isSupported
InitNote ==
  /\ InitDb({1})
  /\ selectedStudent = 1
  /\ showNoteModal = TRUE
  /\ InitOtherState
  /\ NoAnalytics
  /\ NoExport
  /\ NoAssistant
  /\ NoStatement
  /\ NoRequest
  /\ studentName = StudentNameOf
  /\ NoTrend
  /\ NoForms
  /\ tableCapacity = MaxLogs
  /\ isRecording = FALSE
  /\ permissionDenied = FALSE
  /\ recognition \in {"none", "idle"}
  /\ isSupported = (recognition # "none")
  /\ recognitionEvent = ""
  /\ NoCamera
  /\ NoAuth
  /\ currentScreen = "tracking"
  /\ currentClassId = 1
  /\ trackStudents = StudentsOfClass(1)
  /\ categories = {c.id : c \in participation_categories}
  /\ reportStudents = {}
  /\ reportCategories = {}
  /\ reportCalls = EmptyBag
NextNote ==
  \/ \E t \in NoteTexts : setNoteText(t)
  \/ clearNote
  \/ handleSaveNote(MaxInFlight)
  \/ CloseNote
  \/ \E c \in Pending : SaveNoteSelectCategory(c)
  \/ \E c \in Pending : SaveNoteInsertOk(c)
  \/ \E c \in Pending : SaveNoteInsertError(c)
  \/ startRecording
  \/ stopRecording
  \/ onstart
  \/ \E t \in {<<>>, <<"a">>} : onresult(t)
  \/ \E kind \in RecognitionErrors : onerror(kind)
  \/ onend
SpecNote == InitNote /\ [][NextNote]_vars

\* ------------------------------------ AddStudentModal and EditStudentModal
\* what the two student modals leave alone, apart from the database
exceptCamera == <<navVars, trackVars, noteVars, confirmVars, calls, reportClasses,
                  reportStudents, reportCategories, filterVars, reportData,
                  classWideReportData, reportLoading, reportFor, reportCalls,
                  filterChanges, analytics, csvData, assistantVars, serviceVars,
                  studentName, trendVars, formVars, speechVars, authVars, tableCapacity>>
\* camera tracks the browser hands out, and getUserMedia calls waiting
MaxStreams == 2
MaxCameraCalls == 2
\* the id the database gives the student the add modal inserts
NewStudentId == 3

CameraCall(modal, op) == [modal |-> modal, op |-> op, photo_url |-> ""]
WaitingForCamera ==
  LET Asks(c) == c.op = "getUserMedia"
  IN BagCardinality(FilterBag(Asks, cameraCalls))

\* stream.getTracks().forEach(track => track.stop()) for the stream a
\* render holds
StopTracks(stream) ==
  [i \in 1..Len(cameraTracks) |->
     IF i = stream THEN [cameraTracks[i] EXCEPT !.readyState = "ended"]
     ELSE cameraTracks[i]]

\* startCamera of AddStudentModal: the getUserMedia call is made from a
\* setTimeout callback, outside the try block
addStartCamera ==
  /\ addStudentModal.mounted
  /\ WaitingForCamera < MaxCameraCalls
  /\ addStudentModal' = [addStudentModal EXCEPT !.videoReady = FALSE, !.error = "",
                                               !.activeInputMethod = "camera"]
  /\ cameraCalls' = BagAdd(cameraCalls, CameraCall("add", "getUserMedia"))
  /\ cameraEvent' = ""
  /\ UNCHANGED <<exceptCamera, dbVars, editStudentModal, cameraTracks>>
  /\ console' = ""

\* getUserMedia resolves for AddStudentModal: setStream(mediaStream)
addGetUserMediaOk(c) ==
  /\ c.modal = "add"
  /\ c.op = "getUserMedia"
  /\ Len(cameraTracks) < MaxStreams
  /\ cameraCalls' = BagRemove(cameraCalls, c)
  /\ cameraTracks' = Append(cameraTracks, [owner |-> "add", readyState |-> "live"])
  /\ addStudentModal' = IF addStudentModal.mounted
                        THEN [addStudentModal EXCEPT !.stream = Len(cameraTracks) + 1]
                        ELSE addStudentModal
  /\ cameraEvent' = ""
  /\ UNCHANGED <<exceptCamera, dbVars, editStudentModal>>
  /\ console' = ""

\* getUserMedia rejects for AddStudentModal: the rejection of the timer
\* callback's promise reaches no handler
addGetUserMediaRejected(c) ==
  /\ c.modal = "add"
  /\ c.op = "getUserMedia"
  /\ cameraCalls' = BagRemove(cameraCalls, c)
  /\ cameraEvent' = "add rejected"
  /\ UNCHANGED <<exceptCamera, dbVars, addStudentModal, editStudentModal, cameraTracks>>
  /\ console' = ""

\* videoRef.current.onloadedmetadata of AddStudentModal
addLoadedMetadata ==
  /\ addStudentModal.mounted
  /\ addStudentModal.activeInputMethod = "camera"
  /\ addStudentModal.stream # 0
  /\ ~addStudentModal.videoReady
  /\ addStudentModal' = [addStudentModal EXCEPT !.videoReady = TRUE]
  /\ cameraEvent' = ""
  /\ UNCHANGED <<exceptCamera, dbVars, editStudentModal, cameraTracks, cameraCalls>>
  /\ console' = ""

\* stopCamera of AddStudentModal (Cancel of the camera view)
addStopCamera ==
  /\ addStudentModal.mounted
  /\ addStudentModal.activeInputMethod = "camera"
  /\ cameraTracks' = StopTracks(addStudentModal.stream)
  /\ addStudentModal' = [addStudentModal EXCEPT !.stream = 0, !.videoReady = FALSE,
                                               !.activeInputMethod = "none"]
  /\ cameraEvent' = ""
  /\ UNCHANGED <<exceptCamera, dbVars, editStudentModal, cameraCalls>>
  /\ console' = ""

\* capturePhoto of AddStudentModal with a frame to draw
addCapturePhoto ==
  /\ addStudentModal.mounted
  /\ addStudentModal.activeInputMethod = "camera"
  /\ addStudentModal.videoReady
  /\ IF addStudentModal.stream = 0
     THEN /\ addStudentModal' = [addStudentModal EXCEPT
                                   !.error = "Camera not available. Please try again."]
          /\ UNCHANGED cameraTracks
     ELSE /\ cameraTracks' = StopTracks(addStudentModal.stream)
          /\ addStudentModal' = [addStudentModal EXCEPT
                                   !.photoUrl = "data:image/jpeg", !.stream = 0,
                                   !.videoReady = FALSE, !.activeInputMethod = "none",
                                   !.error = ""]
  /\ cameraEvent' = ""
  /\ UNCHANGED <<exceptCamera, dbVars, editStudentModal, cameraCalls>>
  /\ console' = ""

\* handleSubmit of AddStudentModal up to its await, no avatar chosen
addHandleSubmit ==
  /\ addStudentModal.mounted
  /\ ~addStudentModal.loading
  /\ addStudentModal' = [addStudentModal EXCEPT !.loading = TRUE, !.error = ""]
  /\ cameraCalls' = BagAdd(cameraCalls,
       [CameraCall("add", "insert") EXCEPT !.photo_url = addStudentModal.photoUrl])
  /\ cameraEvent' = ""
  /\ UNCHANGED <<exceptCamera, dbVars, editStudentModal, cameraTracks>>
  /\ console' = ""

\* handleSubmit of AddStudentModal: the insert is accepted and
\* onStudentAdded closes the modal
addInsertOk(c) ==
  /\ c.modal = "add"
  /\ c.op = "insert"
  /\ NewStudentId \notin DOMAIN students
  /\ students' = (NewStudentId :> [class_id |-> 1, total_positive_points |-> 0,
                                   total_negative_points |-> 0]) @@ students
  /\ cameraCalls' = BagRemove(cameraCalls, c)
  /\ addStudentModal' = [addStudentModal EXCEPT !.mounted = FALSE, !.loading = FALSE]
  /\ cameraEvent' = ""
  /\ UNCHANGED <<exceptCamera, classes, participation_logs, participation_categories,
                 editStudentModal, cameraTracks>>
  /\ console' = ""

\* handleSubmit of AddStudentModal: the insert returns an error
addInsertError(c) ==
  /\ c.modal = "add"
  /\ c.op = "insert"
  /\ cameraCalls' = BagRemove(cameraCalls, c)
  /\ addStudentModal' = IF addStudentModal.mounted
                        THEN [addStudentModal EXCEPT !.error = "Failed to add student",
                                                     !.loading = FALSE]
                        ELSE addStudentModal
  /\ cameraEvent' = ""
  /\ UNCHANGED <<exceptCamera, dbVars, editStudentModal, cameraTracks>>
  /\ console' = ""

\* onClose of AddStudentModal; the component has no effect cleanup
addClose ==
  /\ addStudentModal.mounted
  /\ addStudentModal' = [addStudentModal EXCEPT !.mounted = FALSE]
  /\ cameraEvent' = ""
  /\ UNCHANGED <<exceptCamera, dbVars, editStudentModal, cameraTracks, cameraCalls>>
  /\ console' = ""

\* startCamera of EditStudentModal up to its await: stopCamera() for the
\* stream of the render, then the getUserMedia call inside the try block
editStartCamera ==
  /\ editStudentModal.mounted
  /\ WaitingForCamera < MaxCameraCalls
  /\ cameraTracks' = StopTracks(editStudentModal.stream)
  /\ editStudentModal' = [editStudentModal EXCEPT !.stream = 0, !.videoReady = FALSE,
                                                 !.error = "",
                                                 !.activeInputMethod = "camera"]
  /\ cameraCalls' = BagAdd(cameraCalls, CameraCall("edit", "getUserMedia"))
  /\ cameraEvent' = ""
  /\ UNCHANGED <<exceptCamera, dbVars, addStudentModal>>
  /\ console' = ""

\* getUserMedia resolves for EditStudentModal: setStream(mediaStream)
editGetUserMediaOk(c) ==
  /\ c.modal = "edit"
  /\ c.op = "getUserMedia"
  /\ Len(cameraTracks) < MaxStreams
  /\ cameraCalls' = BagRemove(cameraCalls, c)
  /\ cameraTracks' = Append(cameraTracks, [owner |-> "edit", readyState |-> "live"])
  /\ editStudentModal' = IF editStudentModal.mounted
                         THEN [editStudentModal EXCEPT !.stream = Len(cameraTracks) + 1]
                         ELSE editStudentModal
  /\ cameraEvent' = ""
  /\ UNCHANGED <<exceptCamera, dbVars, addStudentModal>>
  /\ console' = ""

\* getUserMedia rejects for EditStudentModal: the catch block of startCamera
editGetUserMediaRejected(c) ==
  /\ c.modal = "edit"
  /\ c.op = "getUserMedia"
  /\ cameraCalls' = BagRemove(cameraCalls, c)
  /\ editStudentModal' =
       IF editStudentModal.mounted
       THEN [editStudentModal EXCEPT
               !.error = "Unable to access camera. Please check permissions and try again.",
               !.activeInputMethod = "none"]
       ELSE editStudentModal
  /\ cameraEvent' = "edit rejected"
  /\ UNCHANGED <<exceptCamera, dbVars, addStudentModal, cameraTracks>>
  /\ console' = "Error accessing camera:"

\* videoRef.current.onloadedmetadata of EditStudentModal, play() resolving
editLoadedMetadata ==
  /\ editStudentModal.mounted
  /\ editStudentModal.activeInputMethod = "camera"
  /\ editStudentModal.stream # 0
  /\ ~editStudentModal.videoReady
  /\ editStudentModal' = [editStudentModal EXCEPT !.videoReady = TRUE]
  /\ cameraEvent' = ""
  /\ UNCHANGED <<exceptCamera, dbVars, addStudentModal, cameraTracks, cameraCalls>>
  /\ console' = ""

\* stopCamera of EditStudentModal (Cancel of the camera view)
editStopCamera ==
  /\ editStudentModal.mounted
  /\ editStudentModal.activeInputMethod = "camera"
  /\ cameraTracks' = StopTracks(editStudentModal.stream)
  /\ editStudentModal' = [editStudentModal EXCEPT !.stream = 0, !.videoReady = FALSE]
  /\ cameraEvent' = ""
  /\ UNCHANGED <<exceptCamera, dbVars, addStudentModal, cameraCalls>>
  /\ console' = ""

\* capturePhoto of EditStudentModal with a frame to draw
editCapturePhoto ==
  /\ editStudentModal.mounted
  /\ editStudentModal.activeInputMethod = "camera"
  /\ editStudentModal.videoReady
  /\ IF editStudentModal.stream = 0
     THEN /\ editStudentModal' = [editStudentModal EXCEPT
                                    !.error = "Camera not available. Please try again."]
          /\ UNCHANGED cameraTracks
     ELSE /\ cameraTracks' = StopTracks(editStudentModal.stream)
          /\ editStudentModal' = [editStudentModal EXCEPT
                                    !.photoUrl = "data:image/jpeg", !.stream = 0,
                                    !.videoReady = FALSE, !.activeInputMethod = "none",
                                    !.error = "", !.loading = FALSE]
  /\ cameraEvent' = ""
  /\ UNCHANGED <<exceptCamera, dbVars, addStudentModal, cameraCalls>>
  /\ console' = ""

\* handleSubmit of EditStudentModal up to its await, no avatar chosen
editHandleSubmit ==
  /\ editStudentModal.mounted
  /\ ~editStudentModal.loading
  /\ editStudentModal' = [editStudentModal EXCEPT !.loading = TRUE, !.error = ""]
  /\ cameraCalls' = BagAdd(cameraCalls,
       [CameraCall("edit", "update") EXCEPT !.photo_url = editStudentModal.photoUrl])
  /\ cameraEvent' = ""
  /\ UNCHANGED <<exceptCamera, dbVars, addStudentModal, cameraTracks>>
  /\ console' = ""

\* handleSubmit of EditStudentModal after its await: the update of the name
\* and the photo (the name as it was) is accepted and onStudentUpdated
\* closes the modal, or it returns an error
editUpdateDone(c, ok) ==
  /\ c.modal = "edit"
  /\ c.op = "update"
  /\ cameraCalls' = BagRemove(cameraCalls, c)
  /\ editStudentModal' =
       IF ~editStudentModal.mounted THEN editStudentModal
       ELSE IF ok THEN [editStudentModal EXCEPT !.mounted = FALSE, !.loading = FALSE]
       ELSE [editStudentModal EXCEPT !.error = "Failed to update student",
                                     !.loading = FALSE]
  /\ cameraEvent' = ""
  /\ UNCHANGED <<exceptCamera, dbVars, addStudentModal, cameraTracks>>
  /\ console' = ""

\* onClose of EditStudentModal: the modal unmounts and the cleanup of its
\* mount effect runs stopCamera as the first render defined it, whose
\* stream is the initial null
editClose ==
  /\ editStudentModal.mounted
  /\ cameraTracks' = StopTracks(ModalInitial.stream)
  /\ editStudentModal' = [editStudentModal EXCEPT !.mounted = FALSE]
  /\ cameraEvent' = ""
  /\ UNCHANGED <<exceptCamera, dbVars, addStudentModal, cameraCalls>>
  /\ console' = ""

CameraPending == BagToSet(cameraCalls)

\* the class page with one of the two student modals just opened
InitCamera ==
  /\ QuietApp("class")
  /\ studentName = StudentNameOf
  /\ NoTrend
  /\ NoForms
  /\ tableCapacity = MaxLogs
  /\ NoSpeech
  /\ NoAuth
  /\ \E modal \in {"add", "edit"} :
       /\ addStudentModal = IF modal = "add" THEN ModalInitial ELSE ModalAbsent
       /\ editStudentModal = IF modal = "edit" THEN ModalInitial ELSE ModalAbsent
  /\ cameraTracks = <<>>
  /\ cameraCalls = EmptyBag
  /\ cameraEvent = ""
NextCamera ==
  \/ addStartCamera
  \/ \E c \in CameraPending : addGetUserMediaOk(c)
  \/ \E c \in CameraPending : addGetUserMediaRejected(c)
  \/ addLoadedMetadata
  \/ addStopCamera
  \/ addCapturePhoto
  \/ addHandleSubmit
  \/ \E c \in CameraPending : addInsertOk(c)
  \/ \E c \in CameraPending : addInsertError(c)
  \/ addClose
  \/ editStartCamera
  \/ \E c \in CameraPending : editGetUserMediaOk(c)
  \/ \E c \in CameraPending : editGetUserMediaRejected(c)
  \/ editLoadedMetadata
  \/ editStopCamera
  \/ editCapturePhoto
  \/ editHandleSubmit
  \/ \E c \in CameraPending : \E ok \in BOOLEAN : editUpdateDone(c, ok)
  \/ editClose
SpecCamera == InitCamera /\ [][NextCamera]_vars

\* ------------------------------------------- AuthProvider and AppContent
\* what a change of the session leaves alone: the database, the screen and
\* class id of AppContent, and the pages outside the navigation
exceptAuth == <<dbVars, navVars, reportClasses, reportStudents, reportCategories,
                filterVars, reportData, classWideReportData, reportLoading, reportFor,
                reportCalls, filterChanges, analytics, csvData, assistantVars,
                serviceVars, studentName, trendVars, formVars, speechVars, cameraVars, tableCapacity>>
\* the accounts that may sign in
UserIds == {1, 2}
\* AppContent renders a page only for a user, once loading is over
SignedIn == user # 0 /\ ~authLoading

\* setSession(session); setUser(session?.user ?? null); setLoading(false),
\* with what AppContent renders next: without a user the AuthForm replaces
\* the page, whose state is gone while its handlers keep running; with a
\* user again the page of currentScreen mounts, the tracking page fetching
\* the students of currentClassId
setSessionAndUser(s) ==
  /\ session' = s
  /\ user' = s
  /\ authLoading' = FALSE
  /\ IF SignedIn /\ s = 0
     THEN /\ calls' = Unmount(calls, TrackOps \cup ClassOps \cup MainOps)
          /\ trackStudents' = {}
          /\ categories' = {}
          /\ TrackInitial
          /\ NoteInitial
          /\ ConfirmInitial
     ELSE IF ~SignedIn /\ s # 0 /\ currentScreen = "tracking"
     THEN /\ trackStudents' = StudentsOfClass(currentClassId)
          /\ categories' = {c.id : c \in participation_categories}
          /\ TrackInitial
          /\ UNCHANGED <<calls, noteVars, confirmVars>>
     ELSE UNCHANGED <<calls, trackVars, noteVars, confirmVars>>
  /\ UNCHANGED exceptAuth
  /\ console' = ""

\* getInitialSession: getSession answers with the stored session of a user
\* or with none
getInitialSession(s) ==
  /\ authLoading
  /\ setSessionAndUser(s)

\* the onAuthStateChange handler: every branch ends with the session of the
\* event; SIGNED_OUT carries none, a failed TOKEN_REFRESHED carries none
onAuthStateChange(event, s) ==
  /\ \/ event = "SIGNED_IN" /\ s # 0
     \/ event = "SIGNED_OUT" /\ s = 0 /\ session # 0
     \/ event = "TOKEN_REFRESHED" /\ session # 0 /\ s \in {0, session}
  /\ setSessionAndUser(s)

\* the application loading, nobody signed in yet; then sessions come and go
\* while the user moves between the pages and tracks participation
InitAuth ==
  /\ InitDb(ClassIds)
  /\ InitPages
  /\ NoAnalytics
  /\ NoExport
  /\ NoAssistant
  /\ NoStatement
  /\ NoRequest
  /\ studentName = StudentNameOf
  /\ NoTrend
  /\ NoForms
  /\ tableCapacity = MaxLogs
  /\ NoSpeech
  /\ NoCamera
  /\ user = 0
  /\ session = 0
  /\ authLoading = TRUE
  /\ currentScreen = "main"
  /\ currentClassId = 0
  /\ trackStudents = {}
  /\ categories = {}
  /\ reportStudents = {}
  /\ reportCategories = {}
  /\ reportCalls = EmptyBag
NextAuth ==
  \/ SignedIn /\ NavStep
  \/ SignedIn /\ TrackStep(MaxInFlight)
  \/ TrackResponse
  \/ \E s \in UserIds \cup {0} : getInitialSession(s)
  \/ \E event \in {"SIGNED_IN", "SIGNED_OUT", "TOKEN_REFRESHED"} :
       \E s \in UserIds \cup {0} : onAuthStateChange(event, s)
SpecAuth == InitAuth /\ [][NextAuth]_vars

\* the sequences of distinct elements of S, the empty one excluded
RECURSIVE Arrangements(_)
Arrangements(S) ==
  UNION {{<<x>>} \cup {<<x>> \o a : a \in Arrangements(S \ {x})} : x \in S}

\* getAnalyticsData over any class-wide report: the students in any array
\* order, with any names and positive points
InitRank ==
  /\ Quiet("reports")
  /\ NoExport
  /\ NoAssistant
  /\ NoStatement
  /\ NoRequest
  /\ NoExtra
  /\ \E ids \in Arrangements(StudentIds) :
     \E name \in [StudentIds -> StudentNames] :
     \E points \in [StudentIds -> PointTotals] :
       analytics =
         [allStudentsWithPoints |->
            [i \in 1..Len(ids) |->
               [student |-> [id |-> ids[i], name |-> name[ids[i]]],
                positivePoints |-> points[ids[i]]]],
          studentRank |-> [s \in StudentIds |-> 0]]
NextRank == \E s \in StudentIds : getAnalyticsData(s)
SpecRank == InitRank /\ [][NextRank]_vars

\* the reports page with class 1 selected and everything loaded: its
\* students, the categories and the report of all time;
\* from there the user changes filters and exports while requests are pending
InitExport ==
  /\ \E B \in BagsOf(AppRows, MaxReportLogs) : InitDbWith(B)
  /\ NoAnalysis
  /\ currentScreen = "reports"
  /\ currentClassId = 0
  /\ trackStudents = {}
  /\ categories = {}
  /\ selectedStudent = 0
  /\ showPointModal = FALSE
  /\ showCategoryModal = FALSE
  /\ selectedPoints = 0
  /\ selectedIsPositive = TRUE
  /\ showNoteModal = FALSE
  /\ noteText = <<>>
  /\ loading = FALSE
  /\ error = ""
  /\ studentToDelete = 0
  /\ studentToReset = 0
  /\ classToDelete = 0
  /\ classToReset = 0
  /\ calls = EmptyBag
  /\ console = ""
  /\ reportClasses = classes
  /\ reportStudents = StudentsOfClass(1)
  /\ reportCategories = {c.id : c \in participation_categories}
  /\ selectedClassId = 1
  /\ selectedStudentId = 0
  /\ dateFilter = "total"
  /\ customStartDate = <<>>
  /\ customEndDate = <<>>
  /\ reportData = calculateReportData(QueryLogs(1, NoRange), reportStudents, reportCategories)
  /\ classWideReportData =
       reportData @@ [allStudentsWithPoints |->
                        allStudentsWithPoints(QueryLogs(1, NoRange), reportStudents)]
  /\ reportLoading = FALSE
  /\ reportFor = [classId |-> 1, studentId |-> 0, range |-> NoRange]
  /\ filterChanges = 0
  /\ reportCalls = EmptyBag
NextExport ==
  \/ ReportStep(MaxFilterChanges)
  \/ ReportResponse
  \/ exportReport(MaxExports)
  \/ \E c \in ReportPending : exportReportOk(c) \/ exportReportError(c)
SpecExport == InitExport /\ [][NextExport]_vars

\* the assistant page right after it mounted: its mount effect has called
\* fetchClasses() and fetchCategories()
InitAssistant ==
  /\ \E B \in BagsOf(AppRows, MaxReportLogs) : InitDbWith(B)
  /\ InitPages
  /\ NoAnalytics
  /\ NoExport
  /\ NoStatement
  /\ NoRequest
  /\ NoExtra
  /\ currentScreen = "main"
  /\ currentClassId = 0
  /\ trackStudents = {}
  /\ categories = {}
  /\ reportStudents = {}
  /\ reportCategories = {}
  /\ reportCalls = EmptyBag
  /\ assistantClasses = {}
  /\ assistantClassId = 0
  /\ selectedPeriod = "all"
  /\ assistantCategories = {}
  /\ classData = <<>>
  /\ classDataFor = [classId |-> 0, period |-> "all"]
  /\ assistantLoading = FALSE
  /\ messages = <<>>
  /\ periodChanges = 0
  /\ assistantCalls = SetToBag({AssistantCall("fetchClasses"), AssistantCall("fetchCategories")})
NextAssistant ==
  \/ \E k \in ClassIds : assistantSetSelectedClassId(k, MaxFilterChanges)
  \/ \E p \in Periods : setSelectedPeriod(p, MaxFilterChanges)
  \/ \E input \in AssistantInputs : handleSendMessage(input, MaxMessages)
  \/ \E c \in AssistantPending : assistantFetchClassesOk(c)
  \/ \E c \in AssistantPending : assistantFetchCategoriesOk(c)
  \/ \E c \in AssistantPending : fetchClassDataStudents(c)
  \/ \E c \in AssistantPending : fetchClassDataLogs(c)
  \/ \E c \in AssistantPending : assistantFetchError(c)
  \/ \E c \in AssistantPending : handleSendMessageDone(c)
SpecAssistant == InitAssistant /\ [][NextAssistant]_vars

\* the reports page after mount, where the user only switches between the
\* date filters 'daily', 'weekly' and 'total', back and forth; each of them
\* has its own date range, so the range of a request tells its filter
MaxReruns == 2
NextRerun ==
  \/ \E f \in DateFilters \ {"custom"} : setDateFilter(f, MaxReruns)
  \/ ReportResponse
SpecRerun == InitReport /\ [][NextRerun]_vars

\* the loaded reports page where the user selects a student and a date
\* filter of 'daily', 'weekly' and 'total'
MaxSelections == 2
NextCompare ==
  \/ \E s \in StudentIds : setSelectedStudentId(s, MaxSelections)
  \/ \E f \in DateFilters \ {"custom"} : setDateFilter(f, MaxSelections)
  \/ ReportResponse
SpecCompare == InitExport /\ [][NextCompare]_vars

\* ------------------------------------------------- the tables and a client
\* the participation_logs table of this part takes at most MaxTableLogs rows
MaxTableLogs == 2

\* the rows and cascades a statement removed: none
NoneRemoved == [students |-> {}, logs |-> EmptyBag]
Status(command, table, id, ok, removed) ==
  [command |-> command, table |-> table, id |-> id, ok |-> ok, removed |-> removed]

\* what a statement of this part leaves alone
exceptTables == <<navVars, trackVars, noteVars, confirmVars, calls, reportClasses,
                  reportStudents, reportCategories, filterVars, reportData,
                  classWideReportData, reportLoading, reportFor, reportCalls,
                  filterChanges, analytics, csvData, assistantVars, request, apiKey,
                  providerCalls, awaiting, response, extraVars>>

\* INSERT INTO classes (AddClassModal)
InsertClass(c) ==
  /\ c \notin classes
  /\ classes' = classes \cup {c}
  /\ sqlStatus' = Status("INSERT", "classes", c, TRUE, NoneRemoved)
  /\ UNCHANGED <<students, participation_logs, participation_categories>>
  /\ UNCHANGED <<exceptTables, console>>

\* INSERT INTO students (AddStudentModal); class_id REFERENCES classes(id)
\* rejects the row of a class that does not exist
InsertStudent(s, c) ==
  /\ s \notin DOMAIN students
  /\ IF c \in classes
     THEN /\ students' = (s :> [class_id |-> c, total_positive_points |-> 0,
                                total_negative_points |-> 0]) @@ students
          /\ sqlStatus' = Status("INSERT", "students", s, TRUE, NoneRemoved)
     ELSE /\ students' = students
          /\ sqlStatus' = Status("INSERT", "students", s, FALSE, NoneRemoved)
  /\ UNCHANGED <<classes, participation_logs, participation_categories>>
  /\ UNCHANGED <<exceptTables, console>>

\* INSERT INTO participation_logs; student_id REFERENCES students(id)
\* rejects the row of a student that does not exist
InsertLogRow(row) ==
  /\ BagCardinality(participation_logs) < MaxTableLogs
  /\ IF row.student_id \in DOMAIN students
     THEN /\ InsertLog(row)
          /\ sqlStatus' = Status("INSERT", "participation_logs", row.student_id, TRUE,
                                 NoneRemoved)
     ELSE /\ UNCHANGED dbVars
          /\ sqlStatus' = Status("INSERT", "participation_logs", row.student_id, FALSE,
                                 NoneRemoved)
  /\ UNCHANGED <<exceptTables, console>>

\* the rows of the students ids and of their logs
RowsOf(ids) ==
  LET Theirs(l) == l.student_id \in ids
  IN [students |-> ids \cap DOMAIN students, logs |-> FilterBag(Theirs, participation_logs)]

\* DELETE FROM classes WHERE id = c (MainPage): ON DELETE CASCADE deletes the
\* students of the class, and theirs deletes the logs of these students
DeleteClass(c) ==
  /\ c \in classes
  /\ classes' = classes \ {c}
  /\ DeleteStudents(StudentsOfClass(c))
  /\ sqlStatus' = Status("DELETE", "classes", c, TRUE, RowsOf(StudentsOfClass(c)))
  /\ UNCHANGED <<exceptTables, console>>

\* DELETE FROM students WHERE id = s (ClassPage)
DeleteStudent(s) ==
  /\ s \in DOMAIN students
  /\ DeleteStudents({s})
  /\ sqlStatus' = Status("DELETE", "students", s, TRUE, RowsOf({s}))
  /\ UNCHANGED <<classes, exceptTables, console>>

\* DELETE FROM participation_logs WHERE student_id = s (the reset handlers)
DeleteLogs(s) ==
  /\ s \in DOMAIN students
  /\ DeleteLogsOf({s})
  /\ sqlStatus' = Status("DELETE", "participation_logs", s, TRUE,
                         [students |-> {}, logs |-> RowsOf({s}).logs])
  /\ UNCHANGED <<exceptTables, console>>

\* the tables as the schema creates them, and clients that create and
\* delete classes, students and logs
InitTables ==
  /\ classes = {}
  /\ students = <<>>
  /\ participation_logs = EmptyBag
  /\ participation_categories = AllCategories
  /\ InitPages
  /\ NoAnalysis
  /\ currentScreen = "main"
  /\ currentClassId = 0
  /\ trackStudents = {}
  /\ categories = {}
  /\ reportStudents = {}
  /\ reportCategories = {}
  /\ reportCalls = EmptyBag
NextTables ==
  \/ \E c \in ClassIds : InsertClass(c)
  \/ \E s \in StudentIds, c \in ClassIds : InsertStudent(s, c)
  \/ \E row \in AppRows : InsertLogRow(row)
  \/ \E c \in ClassIds : DeleteClass(c)
  \/ \E s \in StudentIds : DeleteStudent(s)
  \/ \E s \in StudentIds : DeleteLogs(s)
SpecTables == InitTables /\ [][NextTables]_vars

\* ------------------------------------------------- send-feedback-email
corsHeaders ==
  {<<"Access-Control-Allow-Origin", "*">>,
   <<"Access-Control-Allow-Headers", "authorization, x-client-info, apikey, content-type">>}
jsonHeaders == corsHeaders \cup {<<"Content-Type", "application/json">>}

\* a field of the body or an environment variable: absent, or a string
Fields == {Absent, [present |-> TRUE, text |-> ""], [present |-> TRUE, text |-> "a"]}
\* JavaScript truthiness of such a value
Truthy(f) == f.present /\ f.text # ""

\* request bodies: not JSON, the JSON value null, or a JSON object
Bodies ==
  {[json |-> "invalid"], [json |-> "null"]}
  \cup [json : {"object"}, name : Fields, email : Fields, message : Fields,
        survey : BOOLEAN]
Requests == [method : {"OPTIONS", "POST"}, body : Bodies]

\* what the function leaves alone
exceptFunction == <<dbVars, navVars, trackVars, noteVars, confirmVars, calls, reportClasses,
                    reportStudents, reportCategories, filterVars, reportData,
                    classWideReportData, reportLoading, reportFor, reportCalls,
                    filterChanges, analytics, csvData, assistantVars, sqlStatus, request,
                    apiKey, extraVars>>

\* new Response(body, {status, headers})
Response(status, body, headers) == [status |-> status, body |-> body, headers |-> headers]

\* the message posted to the email provider
payload(body) ==
  [to |-> "aapp1971@gmail.com",
   subject |-> <<"App Feedback from ", body.name.text>>,
   name |-> body.name.text,
   email |-> body.email.text,
   message |-> IF Truthy(body.message) THEN body.message.text ELSE "(none)",
   survey |-> body.survey]

\* the handler up to its fetch of the provider, or to its return
serve ==
  /\ request # None
  /\ response = None
  /\ awaiting = ""
  /\ IF request.method = "OPTIONS"
     THEN /\ response' = Response(200, [text |-> "ok"], corsHeaders)
          /\ console' = ""
          /\ UNCHANGED <<providerCalls, awaiting>>
     ELSE IF request.body.json # "object"
     THEN \* req.json() throws, or the destructuring of null does
          /\ response' = Response(500, [error |-> "Internal server error"], jsonHeaders)
          /\ console' = "Error processing feedback:"
          /\ UNCHANGED <<providerCalls, awaiting>>
     ELSE IF ~Truthy(request.body.name) \/ ~Truthy(request.body.email)
     THEN /\ response' = Response(400, [error |-> "Name and email are required"],
                                  jsonHeaders)
          /\ console' = ""
          /\ UNCHANGED <<providerCalls, awaiting>>
     ELSE IF ~Truthy(apiKey)
     THEN /\ response' = Response(500, [error |-> "Email service not configured"],
                                  jsonHeaders)
          /\ console' = ""
          /\ UNCHANGED <<providerCalls, awaiting>>
     ELSE /\ providerCalls' = Append(providerCalls, payload(request.body))
          /\ awaiting' = "pending"
          /\ console' = ""
          /\ UNCHANGED response
  /\ UNCHANGED exceptFunction

\* the provider answers with a 2xx status
fetchOk ==
  /\ awaiting = "pending"
  /\ awaiting' = "ok"
  /\ response' = Response(200, [success |-> TRUE, message |-> "Email sent successfully"],
                          jsonHeaders)
  /\ console' = ""
  /\ UNCHANGED <<exceptFunction, providerCalls>>

\* the provider answers with another status
fetchNotOk ==
  /\ awaiting = "pending"
  /\ awaiting' = "not ok"
  /\ response' = Response(500, [error |-> "Failed to send email"], jsonHeaders)
  /\ console' = "SendGrid error:"
  /\ UNCHANGED <<exceptFunction, providerCalls>>

\* fetch rejects: the catch block answers
fetchThrows ==
  /\ awaiting = "pending"
  /\ awaiting' = "threw"
  /\ response' = Response(500, [error |-> "Internal server error"], jsonHeaders)
  /\ console' = "Error processing feedback:"
  /\ UNCHANGED <<exceptFunction, providerCalls>>

\* the function serving one request, with or without an EMAIL_API_KEY
InitFunction ==
  /\ InitDb({1})
  /\ InitPages
  /\ NoAnalytics
  /\ NoExport
  /\ NoAssistant
  /\ NoStatement
  /\ NoExtra
  /\ currentScreen = "main"
  /\ currentClassId = 0
  /\ trackStudents = {}
  /\ categories = {}
  /\ reportStudents = {}
  /\ reportCategories = {}
  /\ reportCalls = EmptyBag
  /\ request \in Requests
  /\ apiKey \in Fields
  /\ providerCalls = <<>>
  /\ awaiting = ""
  /\ response = None
NextFunction == serve \/ fetchOk \/ fetchNotOk \/ fetchThrows
SpecFunction == InitFunction /\ [][NextFunction]_vars

\* -------------------------------------------------------------- properties
\* the rows of student s with the given sign
LogsOf(s, positive) ==
  LET Keep(l) == l.student_id = s /\ l.is_positive = positive
  IN FilterBag(Keep, participation_logs)

\* nothing of an award interaction is on the screen
Idle == selectedStudent = 0 /\ ~showPointModal /\ ~showCategoryModal

\* C1: whatever awards, flags, notes, resets and deletes have been applied,
\* every student's total_positive_points is the sum of points of its logs
\* with is_positive = true and its total_negative_points the sum of points of
\* its logs with is_positive = false.
C1_TotalsEqualLogSums ==
  \A s \in DOMAIN students :
    /\ students[s].total_positive_points = SumPoints(LogsOf(s, TRUE))
    /\ students[s].total_negative_points = SumPoints(LogsOf(s, FALSE))

\* C2: a persisted log with is_positive = false and points > 0 was written
\* by a handler called while the category modal was showing for the selected
\* student, with a category chosen there; the log carries that category and
\* that student.
C2_FlagNeedsChosenCategory ==
  \A l \in DOMAIN participation_logs :
    (~l.is_positive /\ l.points > 0) =>
      /\ l.why.shown
      /\ l.why.chosen # 0
      /\ l.category_id = l.why.chosen
      /\ l.student_id = l.why.selected

C2_Witness ==
  \E l \in DOMAIN participation_logs :
    ~l.is_positive /\ l.points > 0 /\ l.why.via = "category"

\* C3: Cancel or close of the point modal, the category modal or the note
\* modal leaves no selected student, no modal open and no pending points or
\* sign, and no handler of the tracking page is left that can still persist
\* a log.
C3_CancelDiscardsEverything ==
  [][(CancelPointModal \/ CancelCategoryModal \/ CloseNote) =>
       /\ selectedStudent' = 0
       /\ ~showPointModal' /\ ~showCategoryModal' /\ ~showNoteModal'
       /\ selectedPoints' = 0 /\ selectedIsPositive' = TRUE
       /\ \A c \in Pending' : c.op \notin TrackOps]_vars

\* persisting an award fails: the insert returns an error, or the lookup
\* finds no default category
AwardFails(c) ==
  /\ c.op = "handleAddPoints"
  /\ c.mounted
  /\ \/ AddPointsInsertError(c)
     \/ AddPointsSelectDefault(c) /\ console' = "No categories found"

\* C4: when persisting an award fails the tracking page is idle afterwards
\* (no selected student, point modal and category modal closed) and no log
\* is written.
C4_FailedAwardReturnsToIdle ==
  [][\A c \in Pending :
       AwardFails(c) => Idle' /\ participation_logs' = participation_logs]_vars

\* a write of one of the five kinds fails while its page is mounted
WriteFails(c) ==
  /\ c.mounted
  /\ \/ AddPointsInsertError(c)
     \/ DeleteStudentError(c)
     \/ ResetStudentError(c)
     \/ DeleteClassError(c)
     \/ ResetClassError(c)

\* C5: every failed write is logged to the console and changes what the
\* page shows.
C5_FailedWriteLoggedAndSurfaced ==
  [][\A c \in Pending :
       WriteFails(c) =>
         /\ console' # ""
         /\ <<trackVars, noteVars, confirmVars>>' # <<trackVars, noteVars, confirmVars>>]_vars

\* a handler started by a positive value button
ValueCall(c) == c.op = "handleAddPoints" /\ c.chosen = 0

C7_NoteWritesOneZeroPointLog ==
  [][\A c \in Pending :
       c.op = "handleSaveNote" =>
         /\ SaveNoteInsertOk(c) =>
              /\ \E r \in DOMAIN participation_logs' :
                   /\ participation_logs' = BagAdd(participation_logs, r)
                   /\ r.student_id = c.student
                   /\ r.points = 0
                   /\ CategoryById(r.category_id).name = "Teacher Note"
                   /\ r.notes = Trim(c.notes)
                   /\ r.notes # <<>>
              /\ students' = students
         /\ (/\ \A cat \in participation_categories : cat.name # "Teacher Note"
             /\ SaveNoteSelectCategory(c)) =>
              /\ participation_logs' = participation_logs
              /\ BagCardinality(calls') < BagCardinality(calls)]_vars

C7_Witness ==
  \E l \in DOMAIN participation_logs :
    /\ l.why.via = "note"
    /\ l.notes = <<"a">>
    /\ students[l.student_id].total_positive_points = 0
    /\ students[l.student_id].total_negative_points = 0

RECURSIVE SumCounts(_)
SumCounts(entries) ==
  IF entries = <<>> THEN 0 ELSE Head(entries).count + SumCounts(Tail(entries))

\* the rows whose category is not 'Teacher Note', of the given sign
NonNoteLogs(B, positive) ==
  LET Keep(l) == l.is_positive = positive /\ CategoryName(l) # "Teacher Note"
  IN FilterBag(Keep, B)

\* C9: for any logs, the reported totalPositivePoints is the sum of points of
\* the positive logs whose category is not 'Teacher Note' and the reported
\* totalNegativePoints the sum of points of the non-positive logs whose
\* category is not 'Teacher Note'.
C9_TotalsExcludeNotes ==
  reportData # NoReport =>
    /\ reportData.totalPositivePoints = SumPoints(NonNoteLogs(participation_logs, TRUE))
    /\ reportData.totalNegativePoints = SumPoints(NonNoteLogs(participation_logs, FALSE))

\* the flags of student s within the range: its rows that are non-positive
\* and not of the 'Teacher Note' category
FlagsInWindow(s, range) ==
  LET Keep(l) == l.student_id = s /\ InRange(l, range)
  IN FilterBag(Keep, NonNoteLogs(participation_logs, FALSE))

\* C10: a displayed report that was requested for a student of the class and
\* a date window has category-breakdown counts that sum to the number of that
\* student's non-positive, non-'Teacher Note' logs in the window.
C10_BreakdownCountsStudentFlags ==
  (/\ reportData # NoReport
   /\ reportFor.studentId # 0
   /\ students[reportFor.studentId].class_id = reportFor.classId) =>
    SumCounts(reportData.categoryBreakdown) =
      BagCardinality(FlagsInWindow(reportFor.studentId, reportFor.range))


\* C11: the ranks shown for the students of a class-wide report are distinct
\* numbers of 1..N; a student with more positive points has the smaller
\* rank, of two students with equal points the one whose name compares
\* earlier has the smaller rank, and computing a rank again gives the rank
\* already shown.
C11_RankIsStrictTotalOrder ==
  [][analytics' # None =>
       LET all == analytics'.allStudentsWithPoints
           r(i) == analytics'.studentRank[all[i].student.id]
           ranked == {i \in 1..Len(all) : r(i) # 0}
       IN /\ \A i \in ranked : r(i) \in 1..Len(all)
          /\ \A i, j \in ranked :
               i # j =>
                 /\ r(i) # r(j)
                 /\ all[i].positivePoints > all[j].positivePoints => r(i) < r(j)
                 /\ (/\ all[i].positivePoints = all[j].positivePoints
                     /\ localeCompare(all[i].student.name, all[j].student.name) < 0)
                      => r(i) < r(j)
          /\ \A s \in StudentIds :
               (analytics # None /\ analytics.studentRank[s] # 0) =>
                 analytics'.studentRank[s] = analytics.studentRank[s]]_vars

\* three students are ranked; two of them have equal points and stand in
\* the array in the reverse order of their names
C11_Witness ==
  /\ analytics # None
  /\ LET all == analytics.allStudentsWithPoints
     IN /\ Len(all) = 3
        /\ \A i \in 1..3 : analytics.studentRank[all[i].student.id] # 0
        /\ \E i, j \in 1..3 :
             /\ i < j
             /\ all[i].positivePoints = all[j].positivePoints
             /\ localeCompare(all[i].student.name, all[j].student.name) > 0


\* the body rows of an export
BodyRows == SubSeq(csvData.rows, 3, Len(csvData.rows))

\* C12: below its two header rows an export has exactly one row for each
\* student of the class it was made for; every row has the same 10 cells,
\* in the order Name, Points and the eight flag columns; when the class has
\* no logs every flag cell reads "0".
C12_OneRowPerStudentOfClass ==
  csvData # None =>
    LET ofClass == StudentsOfClass(csvData.classId)
    IN /\ Len(BodyRows) = Cardinality(ofClass)
       /\ \A s \in ofClass :
            Cardinality({i \in 1..Len(BodyRows) : BodyRows[i][1] = StudentNameOf[s]}) = 1
       /\ \A i \in 1..Len(csvData.rows) : Len(csvData.rows[i]) = 10
       /\ SubSeq(csvData.rows[2], 2, 10) = <<"Points">> \o flagCategories
       /\ QueryLogs(csvData.classId, NoRange) = EmptyBag =>
            \A i \in 1..Len(BodyRows) : \A k \in 3..10 : BodyRows[i][k] = "0"

\* the logs of student s in the window
LogsInWindow(s, range) ==
  LET Keep(l) == l.student_id = s /\ InRange(l, range)
  IN FilterBag(Keep, participation_logs)

\* C13: in each body row of an export the Points cell is the sum of the
\* points of that student's positive logs in the window of the export, and
\* each flag cell is the number of that student's non-positive logs in the
\* window whose category has the name of the column.
C13_CellsMatchStudentLogs ==
  csvData # None =>
    \A i \in 1..Len(BodyRows) :
      \A s \in StudentIds :
        BodyRows[i][1] = StudentNameOf[s] =>
          LET mine == LogsInWindow(s, csvData.range)
              Plus(l) == l.is_positive
              Named(k) == LET Keep(l) == ~l.is_positive /\ CategoryName(l) = flagCategories[k]
                          IN FilterBag(Keep, mine)
          IN /\ BodyRows[i][2] = ToString(SumPoints(FilterBag(Plus, mine)))
             /\ \A k \in 1..Len(flagCategories) :
                  BodyRows[i][k + 2] = ToString(BagCardinality(Named(k)))


\* a paragraph that only says the student was quiet: the early 'quiet
\* presence' sentence, or a summary made of the quietPresence phrase with no
\* alert, no concern sentence and the mildest recommendation and remark
QuietNarrative(n) ==
  \/ n.branch = "maintained a quiet presence"
  \/ /\ n.branch = "summary"
     /\ n.description = "quietPresence"
     /\ n.alerts = 0
     /\ ~n.concern
     /\ n.recommendation = "minor"
     /\ n.conclusion = "encourageParticipation"

\* student s has no positive points and no non-positive log other than
\* teacher notes in the period
QuietStudent(s, period) ==
  LET mine == LogsInWindow(s, assistantGetDateFilter(period))
      Positive(l) == l.is_positive
  IN /\ SumPoints(FilterBag(Positive, mine)) = 0
     /\ NonNoteLogs(mine, FALSE) = EmptyBag

\* C14: in every individual student report of the assistant, a student who
\* has 0 positive points and no non-positive log other than teacher notes in
\* the period the class data was loaded for gets the quiet-presence
\* paragraph, not a paragraph that reports behavioural alerts or calls for
\* intervention.
C14_QuietStudentGetsQuietNarrative ==
  \A i \in 1..Len(messages) :
    messages[i].kind = "report" =>
      \A s \in DOMAIN messages[i].narrative :
        QuietStudent(s, messages[i].dataFor.period) =>
          QuietNarrative(messages[i].narrative[s])


\* C15: when a report is generated again for the class, student selection
\* and date window of the report on display, with the logs, students and
\* categories of the database unchanged, the new report and class-wide
\* report have the same totals, averages, net points, category counts,
\* daily trend values, top and needs-attention lists as the ones on display.
C15_RerunGivesSameReport ==
  [][(reportData # NoReport /\ reportFor' = reportFor /\ dbVars' = dbVars) =>
       (reportData' = reportData /\ classWideReportData' = classWideReportData)]_vars


\* every student belongs to an existing class and every log to an existing
\* student
ReferencesHold ==
  /\ \A s \in DOMAIN students : students[s].class_id \in classes
  /\ \A l \in DOMAIN participation_logs : l.student_id \in DOMAIN students

\* the student rows other than ids, and the logs of other students than ids
OtherStudents(studs, ids) == [s \in DOMAIN studs \ ids |-> studs[s]]
OtherLogs(B, ids) ==
  LET Other(l) == l.student_id \notin ids
  IN FilterBag(Other, B)

\* a step that deleted class c removed its students and their logs and
\* nothing else
ClassDeleted(c) ==
  LET ids == StudentsOfClass(c)
  IN /\ DOMAIN students' = DOMAIN students \ ids
     /\ OtherLogs(participation_logs', ids) = participation_logs'
     /\ classes' = classes \ {c}
     /\ students' = OtherStudents(students, ids)
     /\ participation_logs' = OtherLogs(participation_logs, ids)

\* a step that deleted student s removed its logs and nothing else
StudentDeleted(s) ==
  /\ DOMAIN students' = DOMAIN students \ {s}
  /\ OtherLogs(participation_logs', {s}) = participation_logs'
  /\ classes' = classes
  /\ students' = OtherStudents(students, {s})
  /\ participation_logs' = OtherLogs(participation_logs, {s})

\* C16: after any sequence of class, student and log creations and
\* deletions every student belongs to an existing class and every log to an
\* existing student; deleting a class removes all its students and all their
\* logs, deleting a student removes all its logs, and the rows of other
\* classes and students are untouched.
C16_CascadesKeepReferences ==
  /\ []ReferencesHold
  /\ [][\A c \in ClassIds :
          (c \in classes /\ c \notin classes') => ClassDeleted(c)]_vars
  /\ [][\A s \in StudentIds :
          (/\ s \in DOMAIN students
           /\ s \notin DOMAIN students'
           /\ students[s].class_id \in classes') => StudentDeleted(s)]_vars

\* a class with a student and a log has been deleted while a student of the
\* other class keeps its log
C16_Witness ==
  /\ sqlStatus # None
  /\ sqlStatus.command = "DELETE"
  /\ sqlStatus.table = "classes"
  /\ sqlStatus.removed.students # {}
  /\ sqlStatus.removed.logs # EmptyBag
  /\ participation_logs # EmptyBag
  /\ ReferencesHold


\* the request has no name or no email: its body is no JSON object, or the
\* field is absent or empty
MissingNameOrEmail ==
  \/ request.body.json # "object"
  \/ ~Truthy(request.body.name)
  \/ ~Truthy(request.body.email)

\* C17: the function calls the email provider only for a request that is not
\* OPTIONS, has a non-empty name and email, and with an API key configured;
\* a request other than OPTIONS that lacks name or email is answered with
\* status 400 and an error body; such a request is answered with status 200
\* only when the provider accepted the message; every response carries the
\* CORS headers.
C17_FeedbackEndpoint ==
  request # None =>
    /\ providerCalls # <<>> =>
         (request.method # "OPTIONS" /\ ~MissingNameOrEmail /\ Truthy(apiKey))
    /\ Len(providerCalls) <= 1
    /\ response # None =>
         /\ corsHeaders \subseteq response.headers
         /\ (request.method # "OPTIONS" /\ MissingNameOrEmail) =>
              (response.status = 400 /\ "error" \in DOMAIN response.body)
         /\ (request.method # "OPTIONS" /\ response.status = 200) => awaiting = "ok"


\* C18: when a reset of a student's points and an insert of a log for the
\* same student have overlapped, then once no operation is pending any more
\* the student's totals are the sums of the points of its remaining logs, by
\* sign.
C18_ResetAndInsertAgree ==
  calls = EmptyBag =>
    \A s \in DOMAIN students :
      /\ SumPoints(LogsOf(s, TRUE)) = students[s].total_positive_points
      /\ SumPoints(LogsOf(s, FALSE)) = students[s].total_negative_points


\* the categories a category breakdown has an entry for
BreakdownCategories(report) ==
  {report.categoryBreakdown[i].category : i \in 1..Len(report.categoryBreakdown)}

\* C19: once no request of the reports page is outstanding and the class-wide
\* report on display is the one of the selected class, its studentCount is
\* the number of students of that class and its category breakdown lists the
\* flag categories the page has loaded.
C19_ClassWideReportOfSelectedClass ==
  (/\ reportCalls = EmptyBag
   /\ selectedClassId # 0
   /\ classWideReportData # NoReport
   /\ reportFor.classId = selectedClassId) =>
    /\ classWideReportData.studentCount = Cardinality(StudentsOfClass(selectedClassId))
    /\ BreakdownCategories(classWideReportData) =
         {c \in reportCategories : ~CategoryById(c).is_positive
                                   /\ CategoryById(c).name # "Teacher Note"}


\* the positive points of student s among the logs of the window
PositiveInWindow(s, range) ==
  LET Positive(l) == l.is_positive
  IN SumPoints(FilterBag(Positive, LogsInWindow(s, range)))

\* C20: when the reports page shows a comparison of the selected student
\* with the class average and every student of the class of the report has
\* the same positive points in the window of the report, the comparison says
\* that the student is exactly at the class average.
C20_EqualPointsMeanAtAverage ==
  (/\ studentComparisonMessage # ""
   /\ \A s, o \in StudentsOfClass(reportFor.classId) :
        PositiveInWindow(s, reportFor.range) = PositiveInWindow(o, reportFor.range)) =>
    studentComparisonMessage = "exactly at the class average"


\* whether the counts of a list never increase along it
CountsDescend(list) ==
  \A i, j \in 1..Len(list) : i < j => list[i].count >= list[j].count

\* the sum of the counts of the first n entries of a students list
RECURSIVE SumListCounts(_, _)
SumListCounts(list, n) ==
  IF n = 0 THEN 0 ELSE list[n].count + SumListCounts(list, n - 1)

\* C21: in every entry of the category breakdown of a report, the students
\* list has one entry per distinct student with a log of that category among
\* the logs of the report, carrying the name and the count of that student;
\* the counts of the list sum to the count of the entry; the entries and each
\* students list are ordered by count, largest first.
C21_StudentsListPerDistinctStudent ==
  reportData # NoReport =>
    LET breakdown == reportData.categoryBreakdown
    IN /\ CountsDescend(breakdown)
       /\ \A i \in 1..Len(breakdown) :
            LET e == breakdown[i]
                Of(l) == l.category_id = e.category /\ ~l.is_positive
                logsForCat == FilterBag(Of, participation_logs)
                having == {l.student_id : l \in BagToSet(logsForCat)}
                Own(s) == LET Mine(l) == l.student_id = s
                          IN BagCardinality(FilterBag(Mine, logsForCat))
            IN /\ Len(e.students) = Cardinality(having)
               /\ \A s \in having :
                    \E k \in 1..Len(e.students) :
                      /\ e.students[k].name = studentName[s]
                      /\ e.students[k].count = Own(s)
               /\ SumListCounts(e.students, Len(e.students)) = e.count
               /\ CountsDescend(e.students)

\* C21 where no two students with a log have the same name
C21_DistinctNames ==
  (\A s, t \in StudentsOfClass(1) : s # t => studentName[s] # studentName[t]) =>
    C21_StudentsListPerDistinctStudent

\* whether the buckets of the daily trend are the sums, by sign and without
\* the teacher notes, of the logs of the 7 consecutive days that end with the
\* day of now, oldest first, for a way DayOf of telling the day of an instant
TrendOfDays(DayOf(_)) ==
  LET today == DayOf(InstantOf(trendZone, trendNow.day, trendNow.hour))
  IN /\ Len(trendData) = TrendDays
     /\ \A n \in 1..TrendDays :
          LET OnPositive(l) == /\ DayOf(l.created_at) = today - (TrendDays - n)
                               /\ l.is_positive
              OnAlert(l) == /\ DayOf(l.created_at) = today - (TrendDays - n)
                            /\ ~l.is_positive
                            /\ CategoryName(l) # "Teacher Note"
          IN /\ trendData[n].positive = SumPoints(FilterBag(OnPositive, trendLogs))
             /\ trendData[n].negative = SumPoints(FilterBag(OnAlert, trendLogs))

TrendLocalDay(t) == LocalDayOf(trendZone, t)

\* C22: the daily trend has exactly 7 buckets, one per consecutive calendar
\* day ending today, oldest first, and each bucket holds the sums of the
\* points of the positive and of the non-positive, non-note logs timestamped
\* on its day, so that each such log of the 7 days is counted in exactly one
\* bucket; the calendar days are either those of the user's time zone or
\* those of UTC.
C22_SevenDailyBuckets ==
  trendData # None => (TrendOfDays(TrendLocalDay) \/ TrendOfDays(UtcDayOf))

\* C22 with the days of UTC, in a zone without daylight saving time
C22_UtcDaysWithoutDst ==
  (trendData # None /\ trendZone.before = trendZone.after) => TrendOfDays(UtcDayOf)

\* C22 with the days of the user's time zone
C22_LocalDays ==
  trendData # None => TrendOfDays(TrendLocalDay)

SaveInFlight == \E c \in Pending : c.op = "handleSaveNote" /\ c.modal

\* C24: in the note modal, whatever recognition events and user actions came
\* before, isRecording is false right after an error or end event; and
\* whether speech recognition is unsupported, denied or failed, the text can
\* be typed, and Save is enabled exactly when the trimmed text is non-empty
\* and no save of the modal is in flight.
C24_RecognitionNeverBlocksTheNote ==
  /\ [][recognitionEvent' \in {"error", "end"} => ~isRecording']_vars
  /\ [](NoteVisible =>
          /\ \A t \in NoteTexts : ENABLED setNoteText(t)
          /\ SaveEnabled <=> (Trim(noteText) # <<>> /\ ~SaveInFlight))

\* the microphone was denied and a note typed afterwards has been saved
C24_Witness ==
  /\ permissionDenied
  /\ ~isRecording
  /\ \E l \in DOMAIN participation_logs : l.notes # <<>>

\* C25: when getUserMedia rejects in the add-student or the edit-student
\* modal, the modal shows an error message, its input method is back at
\* 'none', and the student can still be saved without a photo: the rejection
\* leaves the submit button and the photo as they were.
C25_CameraDenialFallsBack ==
  [][/\ (cameraEvent' = "add rejected" /\ addStudentModal.mounted) =>
          /\ addStudentModal'.error # ""
          /\ addStudentModal'.activeInputMethod = "none"
          /\ addStudentModal'.loading = addStudentModal.loading
          /\ addStudentModal'.photoUrl = addStudentModal.photoUrl
     /\ (cameraEvent' = "edit rejected" /\ editStudentModal.mounted) =>
          /\ editStudentModal'.error # ""
          /\ editStudentModal'.activeInputMethod = "none"
          /\ editStudentModal'.loading = editStudentModal.loading
          /\ editStudentModal'.photoUrl = editStudentModal.photoUrl]_vars

\* C25 for the edit-student modal alone
C25_EditModalFallsBack ==
  [][(cameraEvent' = "edit rejected" /\ editStudentModal.mounted) =>
       /\ editStudentModal'.error # ""
       /\ editStudentModal'.activeInputMethod = "none"
       /\ editStudentModal'.loading = editStudentModal.loading
       /\ editStudentModal'.photoUrl = editStudentModal.photoUrl]_vars

\* C30: once the edit-student modal is closed or unmounted, no camera track
\* it obtained is live, whenever the camera was started.
C30_NoLiveTrackAfterUnmount ==
  ~editStudentModal.mounted =>
    \A i \in 1..Len(cameraTracks) :
      cameraTracks[i].owner = "edit" => cameraTracks[i].readyState # "live"

\* C29: whenever the user becomes signed in (user changes from null to a
\* user, also after a session expiry or a sign-out event received on any
\* screen), the screen shown is the main page and no class id selected
\* during the previous session is used: no class's students are loaded.
C29_SignInShowsMainPage ==
  [][(user = 0 /\ user' # 0) =>
       (currentScreen' = "main" /\ trackStudents' = {})]_vars

\* C29 for the first sign-in after the application loaded
C29_FirstSignIn ==
  [][(authLoading /\ user' # 0) =>
       (currentScreen' = "main" /\ trackStudents' = {})]_vars

\* ------------------------------------------------------------------ C26
\* C26: the interaction that starts with the selection of a student persists
\* at most one participation log, also when a value or category button is
\* activated again while the first insert is in flight.  Under SpecOnce every
\* row of the table was written by the handlers of that one interaction.
C26_OneLogPerInteraction == BagCardinality(participation_logs) <= 1
\* the page is idle again after the first insert, and the handler of the
\* second activation is still about to insert
C26_SecondInsertPending ==
  /\ Idle
  /\ BagCardinality(participation_logs) = 1
  /\ \E c \in Pending : c.op = "handleAddPoints" /\ c.pc = "insert"


\* ------------------------------------------------------------------ C27
\* the students a reset is about
ResetScope(c) ==
  IF c.op = "handleResetStudentPoints" THEN {c.student} ELSE StudentsOfClass(c.class)
\* a request of a reset is answered without error
ResetStep(c) ==
  \/ ResetStudentDeleteLogs(c)
  \/ ResetStudentUpdateTotals(c)
  \/ ResetClassSelectStudents(c)
  \/ ResetClassDeleteLogs(c)
  \/ ResetClassUpdateTotals(c)
\* the last request of a reset is answered without error
ResetCompletes(c) ==
  \/ ResetStudentUpdateTotals(c)
  \/ ResetClassUpdateTotals(c)
  \/ ResetClassSelectStudents(c) /\ StudentsOfClass(c.class) = {}
\* the students ids have no logs and both totals 0
PointsCleared(ids) ==
  \A s \in ids \cap DOMAIN students :
    /\ students[s].total_positive_points = 0
    /\ students[s].total_negative_points = 0
    /\ \A l \in DOMAIN participation_logs : l.student_id # s
\* a step of a reset leaves the classes, the other students and their logs
\* as they were
C27_OnlyTheScopeChanges ==
  [][\A c \in Pending :
       ResetStep(c) =>
         /\ classes' = classes
         /\ DOMAIN students' = DOMAIN students
         /\ OtherStudents(students', ResetScope(c)) = OtherStudents(students, ResetScope(c))
         /\ OtherLogs(participation_logs', ResetScope(c)) = OtherLogs(participation_logs, ResetScope(c))]_vars
\* C27: when a class points reset completes without error every student of
\* the class has no participation logs and both totals 0, when a student
\* points reset completes the same holds of that student, and no step of
\* either reset changes the students, logs or totals outside its class or
\* student.
C27_ResetClearsItsScopeOnly ==
  /\ C27_OnlyTheScopeChanges
  /\ [][\A c \in Pending : ResetCompletes(c) => PointsCleared(ResetScope(c))']_vars


\* ------------------------------------------------------------------ C28
\* the number a count cell shows
CellCount(cell) == CHOOSE n \in 0..MaxReportLogs : ToString(n) = cell
\* the sum of the flag cells of a body row
RECURSIVE SumCells(_, _)
SumCells(row, k) ==
  IF k > Len(row) THEN 0 ELSE CellCount(row[k]) + SumCells(row, k + 1)
\* the rows of an export are those of the students of its class
RowsOfExportedClass ==
  /\ Len(BodyRows) = Cardinality(StudentsOfClass(csvData.classId))
  /\ \A i \in 1..Len(BodyRows) :
       \E s \in StudentsOfClass(csvData.classId) : BodyRows[i][1] = StudentNameOf[s]
\* C28: in every student row of an export the flag cells sum to the number
\* of that student's non-positive logs in the window of the export whose
\* category is not 'Teacher Note': each such log is counted in exactly one
\* flag column.
C28_FlagCellsCountEveryFlag ==
  csvData # None =>
    \A i \in 1..Len(BodyRows) :
      \A s \in StudentIds :
        BodyRows[i][1] = StudentNameOf[s] =>
          SumCells(BodyRows[i], 3) = BagCardinality(FlagsInWindow(s, csvData.range))
\* the same for the exports made with the students of the exported class
\* loaded
C28_WithStudentsLoaded ==
  (csvData # None /\ RowsOfExportedClass) =>
    \A i \in 1..Len(BodyRows) :
      \A s \in StudentsOfClass(csvData.classId) :
        BodyRows[i][1] = StudentNameOf[s] =>
          SumCells(BodyRows[i], 3) = BagCardinality(FlagsInWindow(s, csvData.range))
\* no flag is lost when every flag of the window has the name of a column
C28_NamedFlagsCounted ==
  (csvData # None /\ RowsOfExportedClass) =>
    \A i \in 1..Len(BodyRows) :
      \A s \in StudentsOfClass(csvData.classId) :
        (/\ BodyRows[i][1] = StudentNameOf[s]
         /\ \A l \in DOMAIN FlagsInWindow(s, csvData.range) :
              \E k \in 1..Len(flagCategories) : CategoryName(l) = flagCategories[k]) =>
          SumCells(BodyRows[i], 3) = BagCardinality(FlagsInWindow(s, csvData.range))

====
